---- MODULE Spec2Model ----
(***************************************************************************)
(* A model of the adar_registry crate: Registry, RegistryMap, Entry,       *)
(* Event and TracedRegistry.                                               *)
(*                                                                         *)
(* Every registry is an Arc<RwLock<Inner>>.  The model keeps, per          *)
(* registry, the Inner value, the state of its RwLock (writer, readers,    *)
(* poison flag) and the number of Registry clones; the Arc's strong count  *)
(* is the number of clones plus the number of Entry guards, each of which  *)
(* holds an upgraded Arc, plus the clones owned by closures.  A call that  *)
(* has to wait for the lock is an action that is not enabled.  A panic is  *)
(* an outcome of the call: the thread's unwinding releases what the call   *)
(* held.                                                                   *)
(*                                                                         *)
(* Each call is modelled twice: as one action, for programs with one       *)
(* thread, and as a sequence of steps that keep their position in          *)
(* `threads`, for programs in which two threads call into one registry.    *)
(* A registry starts either new or after a lap of the u32 counter, with    *)
(* the Entry of identifier 0 still held.                                   *)
(***************************************************************************)
EXTENDS Integers, Sequences, FiniteSets, Bags, TLC

\* ------------------------------------------------------------ bounds
MaxEntries == 2        \* Entry values created in one behaviour
MaxClones == 2         \* Registry clones alive at once
MaxGuards == 2         \* guards and views held at once
MaxNotified == 3       \* observer invocations after which no dispatch is called
MaxOwners == 2         \* Arc<Entry> owners of one Entry at once

\* ------------------------------------------------------------ EntryId
\* EntryId is u32.  TLC's integers are 32-bit signed, so an identifier is
\* kept as its two 16-bit halves <<high, low>>; the arithmetic is exact.
EntryIdBits == 32
HalfRange == 2 ^ (EntryIdBits \div 2)

IdZero == <<0, 0>>
IdMax == <<HalfRange - 1, HalfRange - 1>>

\* u32 `<`
IdLess(a, b) == a[1] < b[1] \/ (a[1] = b[1] /\ a[2] < b[2])

\* u32 wrapping `+ 1`: what `+= 1` computes when overflow checks are off
IdWrappingSucc(i) ==
    IF i[2] + 1 < HalfRange THEN <<i[1], i[2] + 1>>
    ELSE <<(i[1] + 1) % HalfRange, 0>>

\* The values of next_id a behaviour starts from: a Registry on which
\* `drop(r.register(v))` ran k times, with no callback set, is a new
\* Registry but for next_id = k.
StartIds == {IdZero, IdMax}

\* ------------------------------------------------------------ values
Values == {11, 22}
Keys == {"a", "b"}
Callbacks == {"c1"}
Replacements == {"c1", "c2"}               \* callbacks that replace one another
EventArgs == {7}
StoredType == "i32"                        \* the T of Registry<T>
ObserverType == "Box<dyn EventObserver>"   \* the T of an Event's Registry
UnitType == "()"                           \* the T of an erased Entry

EmptyMap == [x \in {} |-> 0]
MapInsert(m, k, v) == [x \in DOMAIN m \cup {k} |-> IF x = k THEN v ELSE m[x]]
MapRemove(m, k) == [x \in DOMAIN m \ {k} |-> m[x]]

NoCallback == [kind |-> "None", name |-> ""]

\* mutant: the callback installed first stays in effect
Recorder_First(c) == [kind |-> "Recorder", name |-> "c1"]

\* a removal callback: the closure named c, which records its arguments
Recorder(c) == [kind |-> "Recorder", name |-> c]

\* the closure TracedRegistry::new installs; it owns a clone of Event ev
UnRegisterDispatch(ev) == [kind |-> "UnRegisterDispatch", name |-> ev]

VARIABLES
    inner,             \* registry -> Inner
    rwlock,            \* registry -> [writer, readers, poisoned]
    clones,            \* registry -> number of Registry values sharing the Arc
    entries,           \* sequence of Entry values: [reg, id, ty, state, key,
                       \* owners]
    guards,            \* bag of held guards: [kind, reg, entry]
    cb_log,            \* invocations of removal callbacks, in order
    notified,          \* invocations of observers, in order
    issued,            \* registry -> identifiers returned by register, in order
    bare,              \* registry -> a register call ran with no callback set
    threads,           \* thread -> the call it is in the middle of
    outcome,           \* what the last call returned
    sm,                \* the StateMachine value: [state, context, live]
    mock               \* the hook calls of the last StateMachine operation

vars == <<inner, rwlock, clones, entries, guards, cb_log,
          notified, issued, bare, threads, outcome, sm, mock>>

\* the registries' part of the state, and the state machine's
registries == <<inner, rwlock, clones, entries, guards, cb_log,
                notified, issued, bare, threads, outcome>>
machine == <<sm, mock>>

\* ------------------------------------------------------------ StateMachine
\* the states of `enum Test`, the contexts (u32) and the args (u16) of the
\* tests
MockStates == {"A", "B", "C"}
MockContexts == {0, 1}
MockArgs == {0, 1}

\* Option<&mut Args>
NoArgs == [some |-> FALSE, value |-> 0]
SomeArgs(a) == [some |-> TRUE, value |-> a]

\* Option<Test>
NoState == "None"

\* the program has constructed no StateMachine
NoMachine == [state |-> "", context |-> 0, live |-> FALSE]

\* MockInner: the calls pushed since the last MOCK.take(), and the state
\* B::on_update returns next
NoCalls == [calls |-> <<>>, b_transition |-> NoState]

\* one element of MockInner::calls; the log also records the call of
\* Machine::on_transition, whose body `impl Machine for Test {}` leaves empty
MockCall(state, call, args, context) ==
    [state |-> state, call |-> call, args |-> args, context |-> context,
     new_state |-> NoState]

TransitionCall(state, new_state, context) ==
    [state |-> state, call |-> "OnTransition", args |-> NoArgs,
     context |-> context, new_state |-> new_state]

\* Mock::push
push(w, call) == [w EXCEPT !.calls = Append(@, call)]

\* the fields a hook reads and writes: the StateMachine's and the MOCK's
World(m, k) ==
    [state |-> m.state, context |-> m.context, calls |-> k.calls,
     b_transition |-> k.b_transition]

\* an on_leave that records nothing
on_leave_Unrecorded(w, args) == w

\* the variant #[StateEnum] gives no struct and no hooks of its own, and
\* the states of an enum that has it beside A, B and C
EndState == "EndState"
StateEnumStates == MockStates \cup {EndState}

\* HasEndState::is_finished of the enum and of the StateMachine
is_finished(m) == m.state = EndState

\* State::on_enter, State::on_leave of the enum: those of A, B and C, and
\* the `_ => ()` arm for EndState
on_enter(w, args) ==
    IF w.state = EndState THEN w
    ELSE push(w, MockCall(w.state, "OnEnter", args, w.context))

on_leave(w, args) ==
    IF w.state = EndState THEN w
    ELSE push(w, MockCall(w.state, "OnLeave", args, w.context))

\* Machine::on_transition, called on the state being left
on_transition(w, new_state) ==
    push(w, TransitionCall(w.state, new_state, w.context))

\* an on_update that treats EndState as it treats B
on_update_returns_EndStateAsB(w) ==
    IF w.state \in {"B", EndState} THEN w.b_transition ELSE NoState

\* State::on_update: what it returns, and the world it leaves; only B
\* returns a state, the one set by MOCK.b_transition, and takes it; the
\* arm for EndState is `_ => None`
on_update_returns(w) == IF w.state = "B" THEN w.b_transition ELSE NoState

on_update(w, args) ==
    LET pushed == push(w, MockCall(w.state, "OnUpdate", args, w.context))
    IN IF w.state = EndState THEN w
       ELSE IF w.state = "B" THEN [pushed EXCEPT !.b_transition = NoState]
       ELSE pushed

\* StateMachine::transition_args: both arms of the match make the same calls
transition_args(w, new_state, args) ==
    LET left == on_leave(w, args)
        told == on_transition(left, new_state)
        installed == [told EXCEPT !.state = new_state]
    IN on_enter(installed, args)

\* a transition that enters the new state before it is installed
transition_EntersBeforeInstall(w, new_state) ==
    LET left == on_leave(w, NoArgs)
        told == on_transition(left, new_state)
        entered == on_enter(told, NoArgs)
    IN [entered EXCEPT !.state = new_state]

\* StateMachine::transition
transition(w, new_state) == transition_args(w, new_state, NoArgs)

\* an update whose transition drops the args, as run_args's does
update_args_DropsArgs(w, a) ==
    LET updated == on_update(w, SomeArgs(a))
        new_state == on_update_returns(w)
    IN IF new_state # NoState
       THEN transition(updated, new_state)
       ELSE updated

\* StateMachine::update_args
update_args(w, a) ==
    LET updated == on_update(w, SomeArgs(a))
        new_state == on_update_returns(w)
    IN IF new_state # NoState
       THEN transition_args(updated, new_state, SomeArgs(a))
       ELSE updated

\* a run whose transition passes the args on, as update_args's does
run_args_PassesArgs(w, a) ==
    LET updated == on_update(w, SomeArgs(a))
        new_state == on_update_returns(w)
    IN IF new_state # NoState
       THEN on_update(transition_args(updated, new_state, SomeArgs(a)),
                      SomeArgs(a))
       ELSE updated

\* StateMachine::run_args: `while let Some(new_state) = on_update(..)`
RECURSIVE run_args(_, _)
run_args(w, a) ==
    LET updated == on_update(w, SomeArgs(a))
        new_state == on_update_returns(w)
    IN IF new_state # NoState
       THEN run_args(transition(updated, new_state), a)
       ELSE updated

\* the StateMachine and the MOCK a call leaves behind; the calls are those
\* the MOCK.take() after the call returns
Leaves(w) ==
    /\ sm' = [sm EXCEPT !.state = w.state, !.context = w.context]
    /\ mock' = [calls |-> w.calls, b_transition |-> w.b_transition]

Taken == [mock EXCEPT !.calls = <<>>]

\* StateMachine::new_context(state, context)
NewContext(state, context) ==
    /\ ~sm.live
    /\ LET made == [state |-> state, context |-> context, live |-> TRUE]
           w == on_enter(World(made, Taken), NoArgs)
       IN /\ sm' = made
          /\ mock' = [calls |-> w.calls, b_transition |-> w.b_transition]
    /\ UNCHANGED registries

\* sm.transition(new_state)
Transition(new_state) ==
    /\ sm.live
    /\ Leaves(transition(World(sm, Taken), new_state))
    /\ UNCHANGED registries

\* sm.transition_args(new_state, Some(&mut a))
TransitionArgs(new_state, a) ==
    /\ sm.live
    /\ Leaves(transition_args(World(sm, Taken), new_state, SomeArgs(a)))
    /\ UNCHANGED registries

\* sm.update_args(&mut a)
UpdateArgs(a) ==
    /\ sm.live
    /\ Leaves(update_args(World(sm, Taken), a))
    /\ UNCHANGED registries

\* sm.run_args(&mut a)
RunArgs(a) ==
    /\ sm.live
    /\ Leaves(run_args(World(sm, Taken), a))
    /\ UNCHANGED registries

\* <() as UnitType>::unit(), as a value of the args
unit == 0

\* sm.update(), sm.run()
Update == UpdateArgs(unit)

Run == RunArgs(unit)

\* *sm.context_mut() = context
ContextMut(context) ==
    /\ sm.live
    /\ sm' = [sm EXCEPT !.context = context]
    /\ UNCHANGED <<mock, registries>>

\* MOCK.b_transition(state)
MockBTransition(state) ==
    /\ mock' = [mock EXCEPT !.b_transition = state]
    /\ UNCHANGED <<sm, registries>>

\* drop(sm): Drop for StateMachine
DropMachine ==
    /\ sm.live
    /\ LET w == on_leave(World(sm, Taken), NoArgs)
       IN /\ sm' = [sm EXCEPT !.live = FALSE]
          /\ mock' = [calls |-> w.calls, b_transition |-> w.b_transition]
    /\ UNCHANGED registries

\* ------------------------------------------------------------ threads
\* the threads that make calls one step at a time
Threads == {"A", "B"}

\* the frame of a call a thread is in: the operation, the position in its
\* code, the registry, the Entry it drops or returns, and its locals
Frame(op, pc, r, h, id, key, value) ==
    [op |-> op, pc |-> pc, reg |-> r, entry |-> h, id |-> id, key |-> key,
     value |-> value]

\* a thread that is in no call
Idle == Frame("", "", "", 0, IdZero, "", 0)

\* ------------------------------------------------------------ Arc / RwLock
EntryGuardKinds == {"EntryReadGuard", "EntryWriteGuard"}

GuardCountIn(gd, r, kinds) ==
    LET held == {g \in BagToSet(gd) : g.reg = r /\ g.kind \in kinds}
        RECURSIVE Sum(_)
        Sum(S) == IF S = {} THEN 0
                  ELSE LET g == CHOOSE x \in S : TRUE
                       IN CopiesIn(g, gd) + Sum(S \ {g})
    IN Sum(held)

GuardCount(r, kinds) == GuardCountIn(guards, r, kinds)

\* the Event clones owned by the removal closures of living Inners
CallbackArcs(inn, r) ==
    Cardinality({x \in DOMAIN inn :
                    inn[x].remove_callback = UnRegisterDispatch(r)})

\* Arc::strong_count: Registry clones, the Arcs held by Entry guards and
\* the Arcs owned by closures
StrongIn(inn, cl, gd, r) ==
    cl[r] + GuardCountIn(gd, r, EntryGuardKinds) + CallbackArcs(inn, r)

StrongCount(r) == StrongIn(inner, clones, guards, r)

\* mutant: the Arc an Entry guard holds is not counted
Alive_ClonesOnly(r) == clones[r] > 0

\* Weak::upgrade succeeds
Alive(r) == StrongCount(r) > 0

\* mutant: a shared acquisition does not wait for the writer
CanRead_IgnoresWriter(r) == TRUE

\* mutant: an exclusive acquisition does not wait for the readers
CanWrite_IgnoresReaders(r) == ~rwlock[r].writer

\* mutant: a shared acquisition waits for the other readers too
CanRead_WaitsForReaders(r) == ~rwlock[r].writer /\ rwlock[r].readers = 0

\* mutant: an exclusive acquisition does not wait for another writer
CanWrite_IgnoresWriter(r) == rwlock[r].readers = 0

\* RwLock: a shared acquisition waits while a writer holds the lock, an
\* exclusive one while anyone does
CanRead(r) == ~rwlock[r].writer
CanWrite(r) == ~rwlock[r].writer /\ rwlock[r].readers = 0

KeyedOutcome(op, key, arg, tag, msg, val) ==
    [op |-> op, key |-> key, arg |-> arg, tag |-> tag, msg |-> msg,
     val |-> val]

Outcome(op, arg, tag, msg, val) == KeyedOutcome(op, "", arg, tag, msg, val)

\* a call that returned nothing
Returned == Outcome("", 0, "Ok", "", 0)

PoisonPanic(op, arg) ==
    Outcome(op, arg, "Panic", "PoisonError", 0)

OverflowPanic(op) ==
    Outcome(op, 0, "Panic", "attempt to add with overflow", 0)

FreshLock == [writer |-> FALSE, readers |-> 0, poisoned |-> FALSE]

\* the values of an Inner are destroyed with it, and its closure; no
\* callback runs
DestroyedInner(in) ==
    IF in.kind = "RegistryMap"
    THEN [in EXCEPT !.map = EmptyMap, !.entry_map = EmptyMap,
                    !.remove_callback = NoCallback]
    ELSE [in EXCEPT !.map = EmptyMap, !.remove_callback = NoCallback]

\* the Inners once every Arc count that reached zero has destroyed its
\* Inner; destroying a closure releases the Event it owns
Reaped(inn, cl, gd) ==
    LET Pass(i) == [r \in DOMAIN i |->
                       IF StrongIn(i, cl, gd, r) = 0
                       THEN DestroyedInner(i[r]) ELSE i[r]]
    IN Pass(Pass(inn))

\* ------------------------------------------------------------ Registry
NewInner(start, elem) ==
    [kind |-> "Registry", elem |-> elem, map |-> EmptyMap,
     next_id |-> start, remove_callback |-> NoCallback]

\* Registry::len
RegistryLen(r) == Cardinality(DOMAIN inner[r].map)

\* `lock.next_id += 1` overflows.  A build with overflow checks (the dev
\* profile) panics there; one without (the release profile) wraps.
Overflows(in) == in.next_id = IdMax

\* the Inner after `map.insert(entry_id, value); next_id += 1`; when the
\* addition panics the insert has happened and next_id is as it was
RegisterInner(in, value, panics) ==
    [in EXCEPT !.map = MapInsert(in.map, in.next_id, value),
               !.next_id = IF panics THEN in.next_id
                           ELSE IdWrappingSucc(in.next_id)]

\* Entry::new.  key is not a field of Entry: it records the key a
\* RegistryMap entry was registered with; nor is owners, the number of
\* values that own the Entry (the Arc's strong count once the program has
\* put it in an Arc<Entry>)
NewEntry(r, id, ty, key) ==
    [reg |-> r, id |-> id, ty |-> ty, state |-> "held", key |-> key,
     owners |-> 1]

\* Registry::register, returning an Entry of type ty
RegisterCall(r, value, op, ty) ==
    /\ inner[r].kind = "Registry"
    /\ clones[r] > 0
    /\ Len(entries) < MaxEntries
    /\ CanWrite(r)
    /\ IF rwlock[r].poisoned
       THEN /\ outcome' = PoisonPanic(op, 0)
            /\ UNCHANGED <<inner, rwlock, entries, issued, bare>>
       ELSE \E checked \in IF Overflows(inner[r]) THEN BOOLEAN ELSE {FALSE} :
            /\ inner' = [inner EXCEPT
                           ![r] = RegisterInner(inner[r], value, checked)]
            /\ IF checked
               THEN /\ rwlock' = [rwlock EXCEPT ![r].poisoned = TRUE]
                    /\ outcome' = OverflowPanic(op)
                    /\ UNCHANGED <<entries, issued, bare>>
               ELSE /\ entries' = Append(entries,
                                     NewEntry(r, inner[r].next_id, ty, ""))
                    /\ issued' = [issued EXCEPT
                                    ![r] = Append(@, inner[r].next_id)]
                    /\ bare' = [bare EXCEPT
                                  ![r] = @ \/ inner[r].remove_callback.kind = "None"]
                    /\ outcome' = Outcome(op, Len(entries) + 1, "Ok", "", 0)
                    /\ UNCHANGED rwlock
    /\ UNCHANGED <<clones, guards, cb_log, notified>>
    /\ UNCHANGED threads
    /\ UNCHANGED machine

\* Registry::register
Register(r, value) ==
    /\ inner[r].elem = StoredType
    /\ RegisterCall(r, value, "register", StoredType)

\* ------------------------------------------------------------ RegistryMap
NewMapInner(start) ==
    [kind |-> "RegistryMap", elem |-> StoredType, map |-> EmptyMap,
     entry_map |-> EmptyMap, next_id |-> start,
     remove_callback |-> NoCallback]

\* mutant: the duplicate-key test never finds the key
KeyTaken_Never(in, key) == FALSE

\* `lock.map.contains_key(&key)`
KeyTaken(in, key) == key \in DOMAIN in.map

\* the Inner after the two inserts and `next_id += 1`
MapRegisterInner(in, key, value, panics) ==
    [in EXCEPT !.map = MapInsert(in.map, key, value),
               !.entry_map = MapInsert(in.entry_map, in.next_id, key),
               !.next_id = IF panics THEN in.next_id
                           ELSE IdWrappingSucc(in.next_id)]

\* RegistryMap::register
MapRegister(r, key, value) ==
    /\ inner[r].kind = "RegistryMap"
    /\ clones[r] > 0
    /\ Len(entries) < MaxEntries
    /\ CanWrite(r)
    /\ IF rwlock[r].poisoned
       THEN /\ outcome' = KeyedOutcome("map.register", key, 0, "Panic",
                                       "PoisonError", value)
            /\ UNCHANGED <<inner, rwlock, entries, issued, bare>>
       ELSE IF KeyTaken(inner[r], key)
       THEN /\ outcome' = KeyedOutcome("map.register", key, 0, "Err",
                                       "KeyAlreadyExists", value)
            /\ UNCHANGED <<inner, rwlock, entries, issued, bare>>
       ELSE \E checked \in IF Overflows(inner[r]) THEN BOOLEAN ELSE {FALSE} :
            /\ inner' = [inner EXCEPT
                  ![r] = MapRegisterInner(inner[r], key, value, checked)]
            /\ IF checked
               THEN /\ rwlock' = [rwlock EXCEPT ![r].poisoned = TRUE]
                    /\ outcome' = KeyedOutcome("map.register", key, 0,
                          "Panic", "attempt to add with overflow", value)
                    /\ UNCHANGED <<entries, issued, bare>>
               ELSE /\ entries' = Append(entries,
                          NewEntry(r, inner[r].next_id, StoredType, key))
                    /\ issued' = [issued EXCEPT
                                    ![r] = Append(@, inner[r].next_id)]
                    /\ bare' = [bare EXCEPT
                                  ![r] = @ \/ inner[r].remove_callback.kind = "None"]
                    /\ outcome' = KeyedOutcome("map.register", key,
                                      Len(entries) + 1, "Ok", "", value)
                    /\ UNCHANGED rwlock
    /\ UNCHANGED <<clones, guards, cb_log, notified>>
    /\ UNCHANGED threads
    /\ UNCHANGED machine

\* ------------------------------------------------------------ Inner::remove
\* RegistryInterface::remove for Registry's Inner: the Inner afterwards and
\* the callback invocation it makes, if any
RegistryRemove(in, entry_id) ==
    IF entry_id \in DOMAIN in.map
    THEN [inner |-> [in EXCEPT !.map = MapRemove(in.map, entry_id)],
          calls |-> IF in.remove_callback.kind = "None" THEN <<>>
                    ELSE << <<in.remove_callback, entry_id,
                              in.map[entry_id]>> >>,
          panic |-> ""]
    ELSE [inner |-> in, calls |-> <<>>, panic |-> ""]

\* RegistryInterface::remove for RegistryMap's Inner
RegistryMapRemove(in, entry_id) ==
    IF entry_id \notin DOMAIN in.entry_map
    THEN [inner |-> in, calls |-> <<>>,
          panic |-> "Failed to find key for EntryId during removal!"]
    ELSE LET key == in.entry_map[entry_id]
             unlinked == [in EXCEPT
                            !.entry_map = MapRemove(in.entry_map, entry_id)]
         IN IF key \in DOMAIN in.map
            THEN [inner |-> [unlinked EXCEPT !.map = MapRemove(in.map, key)],
                  calls |-> IF in.remove_callback.kind = "None" THEN <<>>
                            ELSE << <<in.remove_callback, entry_id, key,
                                      in.map[key]>> >>,
                  panic |-> ""]
            ELSE [inner |-> unlinked, calls |-> <<>>, panic |-> ""]

\* the dyn RegistryInterface call of Entry::drop
InterfaceRemove(in, entry_id) ==
    IF in.kind = "RegistryMap" THEN RegistryMapRemove(in, entry_id)
    ELSE RegistryRemove(in, entry_id)

\* what the callbacks invoked by a removal append to cb_log: the
\* callback and the arguments it was called with
CallbackRecords(calls) ==
    IF calls # <<>> /\ calls[1][1].kind = "Recorder"
    THEN << [i \in 1..Len(calls[1]) |->
                IF i = 1 THEN calls[1][1].name ELSE calls[1][i]] >>
    ELSE <<>>

\* ------------------------------------------------------------ Event
\* the keys of a BTreeMap<EntryId, _> in iteration order
RECURSIVE IdsAscending(_)
IdsAscending(S) ==
    IF S = {} THEN <<>>
    ELSE LET m == CHOOSE x \in S : \A y \in S \ {x} : IdLess(x, y)
         IN <<m>> \o IdsAscending(S \ {m})

\* the loop of Event::dispatch: notify is called on each observer of the
\* Registry, in iteration order
\* a dispatch that notifies every observer twice
Notifications_Twice(in, args) ==
    LET ids == IdsAscending(DOMAIN in.map)
        once == [i \in 1..Len(ids) |-> <<in.map[ids[i]], args>>]
    IN once \o once

Notifications(in, args) ==
    LET ids == IdsAscending(DOMAIN in.map)
    IN [i \in 1..Len(ids) |-> <<in.map[ids[i]], args>>]

\* the Event dispatch a removal's callback performs, if it is the
\* closure of TracedRegistry::new
CallbackDispatch(calls) ==
    IF calls # <<>> /\ calls[1][1].kind = "UnRegisterDispatch"
    THEN << [ev |-> calls[1][1].name,
             args |-> <<"UnRegister", calls[1][2], calls[1][3]>>] >>
    ELSE <<>>

\* ------------------------------------------------------------ Entry
\* no guard borrows the Entry (a guard's lifetime is a borrow of its Entry)
Unborrowed(h) == \A g \in BagToSet(guards) : g.entry # h

\* mutant: the drop looks for a registry that holds the identifier
WeakTarget_ByIdentifier(h) ==
    IF \E r \in DOMAIN inner : entries[h].id \in DOMAIN inner[r].map
    THEN CHOOSE r \in DOMAIN inner : entries[h].id \in DOMAIN inner[r].map
    ELSE entries[h].reg

\* the Inner the Entry's `iface: Weak<RwLock<dyn RegistryInterface>>`
\* points to: the one that returned the Entry
WeakTarget(h) == entries[h].reg

\* a drop that removes through a poisoned lock
DropRemoves_IgnoresPoison(h) == Alive(WeakTarget(h))

\* the removal Entry::drop performs: upgrade, write lock, remove
DropRemoves(h) ==
    /\ Alive(WeakTarget(h))
    /\ ~rwlock[WeakTarget(h)].poisoned

\* the Entry has one owner, which can move it or drop it
SoleOwner(h) == entries[h].owners = 1

\* Drop for Entry, which runs when its only (or last) owner is dropped.  A
\* panic inside the removal unwinds through the write guard and poisons
\* the lock.
DropEntry(h) ==
    /\ h \in DOMAIN entries
    /\ entries[h].state = "held"
    /\ SoleOwner(h)
    /\ Unborrowed(h)
    /\ LET r == WeakTarget(h)
           res == InterfaceRemove(inner[r], entries[h].id)
           dsp == CallbackDispatch(res.calls)
       IN /\ Alive(r) => CanWrite(r)
          /\ entries' = [entries EXCEPT ![h].state = "dropped"]
          /\ IF ~DropRemoves(h)
             THEN /\ outcome' = Returned
                  /\ UNCHANGED <<inner, rwlock, cb_log, notified>>
             ELSE IF res.panic # ""
             THEN /\ inner' = [inner EXCEPT ![r] = res.inner]
                  /\ rwlock' = [rwlock EXCEPT ![r].poisoned = TRUE]
                  /\ outcome' = Outcome("drop", h, "Panic", res.panic, 0)
                  /\ UNCHANGED <<cb_log, notified>>
             ELSE IF dsp = <<>>
             THEN /\ inner' = [inner EXCEPT ![r] = res.inner]
                  /\ cb_log' = cb_log \o CallbackRecords(res.calls)
                  /\ outcome' = Returned
                  /\ UNCHANGED <<rwlock, notified>>
             ELSE /\ CanRead(dsp[1].ev)
                  /\ inner' = [inner EXCEPT ![r] = res.inner]
                  /\ IF rwlock[dsp[1].ev].poisoned
                     THEN /\ rwlock' = [rwlock EXCEPT ![r].poisoned = TRUE]
                          /\ outcome' = PoisonPanic("drop", h)
                          /\ UNCHANGED notified
                     ELSE /\ notified' = notified \o
                               Notifications(inner[dsp[1].ev], dsp[1].args)
                          /\ outcome' = Returned
                          /\ UNCHANGED rwlock
                  /\ UNCHANGED cb_log
    /\ UNCHANGED <<clones, guards, issued, bare>>
    /\ UNCHANGED threads
    /\ UNCHANGED machine

\* Entry::as_generic: the fields move into an Entry<()>; no drop runs
AsGeneric(h) ==
    /\ h \in DOMAIN entries
    /\ entries[h].state = "held"
    /\ SoleOwner(h)
    /\ Unborrowed(h)
    /\ entries' = [entries EXCEPT ![h].ty = UnitType]
    /\ outcome' = Returned
    /\ UNCHANGED <<inner, rwlock, clones, guards, cb_log,
                   notified, issued, bare>>
    /\ UNCHANGED threads
    /\ UNCHANGED machine

\* Entry::leak: mem::forget, Drop never runs
Leak(h) ==
    /\ h \in DOMAIN entries
    /\ entries[h].state = "held"
    /\ SoleOwner(h)
    /\ Unborrowed(h)
    /\ entries' = [entries EXCEPT ![h].state = "leaked"]
    /\ outcome' = Returned
    /\ UNCHANGED <<inner, rwlock, clones, guards, cb_log,
                   notified, issued, bare>>
    /\ UNCHANGED threads
    /\ UNCHANGED machine

\* `let _ = r.register(value);` on a Registry<T> with no callback or a
\* recording one: Registry::register, and the Entry it returns is dropped
\* at the end of the statement.  Drop for Entry takes the write lock anew
\* and removes the slot with the identifier the call was given.
RegisterDropped(r, value) ==
    /\ inner[r].kind = "Registry"
    /\ inner[r].elem = StoredType
    /\ clones[r] > 0
    /\ Len(entries) < MaxEntries
    /\ CanWrite(r)
    /\ IF rwlock[r].poisoned
       THEN /\ outcome' = PoisonPanic("register.dropped", 0)
            /\ UNCHANGED <<inner, rwlock, entries, issued, bare, cb_log>>
       ELSE \E checked \in IF Overflows(inner[r]) THEN BOOLEAN ELSE {FALSE} :
            IF checked
            THEN /\ inner' = [inner EXCEPT
                           ![r] = RegisterInner(inner[r], value, TRUE)]
                 /\ rwlock' = [rwlock EXCEPT ![r].poisoned = TRUE]
                 /\ outcome' = OverflowPanic("register.dropped")
                 /\ UNCHANGED <<entries, issued, bare, cb_log>>
            ELSE LET res == RegistryRemove(
                                RegisterInner(inner[r], value, FALSE),
                                inner[r].next_id)
                 IN /\ inner' = [inner EXCEPT ![r] = res.inner]
                    /\ cb_log' = cb_log \o CallbackRecords(res.calls)
                    /\ entries' = Append(entries,
                          [NewEntry(r, inner[r].next_id, StoredType, "")
                              EXCEPT !.state = "dropped"])
                    /\ issued' = [issued EXCEPT
                                    ![r] = Append(@, inner[r].next_id)]
                    /\ bare' = [bare EXCEPT
                          ![r] = @ \/ inner[r].remove_callback.kind = "None"]
                    /\ outcome' = Outcome("register.dropped",
                                          Len(entries) + 1, "Ok", "", value)
                    /\ UNCHANGED rwlock
    /\ UNCHANGED <<clones, guards, notified, threads>>
    /\ UNCHANGED machine

\* Arc::clone on an Arc<Entry>: one more owner of the same Entry
ArcClone(h) ==
    /\ h \in DOMAIN entries
    /\ entries[h].state = "held"
    /\ entries[h].owners < MaxOwners
    /\ entries' = [entries EXCEPT ![h].owners = @ + 1]
    /\ outcome' = Outcome("arc.clone", h, "Ok", "", 0)
    /\ UNCHANGED <<inner, rwlock, clones, guards, cb_log,
                   notified, issued, bare, threads>>
    /\ UNCHANGED machine

\* an Arc<Entry> that is not the last one is dropped: the count goes down
\* and the Entry stays.  (The drop of the last one is DropEntry.)
ArcDrop(h) ==
    /\ h \in DOMAIN entries
    /\ entries[h].state = "held"
    /\ entries[h].owners > 1
    /\ entries' = [entries EXCEPT ![h].owners = @ - 1]
    /\ outcome' = Outcome("arc.drop", h, "Ok", "", 0)
    /\ UNCHANGED <<inner, rwlock, clones, guards, cb_log,
                   notified, issued, bare, threads>>
    /\ UNCHANGED machine

EntryGuard(kind, h) == [kind |-> kind, reg |-> entries[h].reg, entry |-> h]

\* Entry::write
EntryWrite(h) ==
    /\ h \in DOMAIN entries
    /\ entries[h].state = "held"
    /\ LET r == entries[h].reg
       IN IF ~Alive(r)
          THEN /\ outcome' = Outcome("entry.write", h, "None", "", 0)
               /\ UNCHANGED <<rwlock, guards>>
          ELSE /\ CanWrite(r)
               /\ BagCardinality(guards) < MaxGuards
               /\ IF rwlock[r].poisoned
                  THEN /\ outcome' = PoisonPanic("entry.write", h)
                       /\ UNCHANGED <<rwlock, guards>>
                  ELSE /\ rwlock' = [rwlock EXCEPT ![r].writer = TRUE]
                       /\ guards' = guards (+)
                              SetToBag({EntryGuard("EntryWriteGuard", h)})
                       /\ outcome' = Outcome("entry.write", h, "Some", "", 0)
    /\ UNCHANGED <<inner, clones, entries, cb_log, notified,
                   issued, bare>>
    /\ UNCHANGED threads
    /\ UNCHANGED machine

\* Entry::read
EntryRead(h) ==
    /\ h \in DOMAIN entries
    /\ entries[h].state = "held"
    /\ LET r == entries[h].reg
       IN IF ~Alive(r)
          THEN /\ outcome' = Outcome("entry.read", h, "None", "", 0)
               /\ UNCHANGED <<rwlock, guards>>
          ELSE /\ CanRead(r)
               /\ BagCardinality(guards) < MaxGuards
               /\ IF rwlock[r].poisoned
                  THEN /\ outcome' = PoisonPanic("entry.read", h)
                       /\ UNCHANGED <<rwlock, guards>>
                  ELSE /\ rwlock' = [rwlock EXCEPT ![r].readers = @ + 1]
                       /\ guards' = guards (+)
                              SetToBag({EntryGuard("EntryReadGuard", h)})
                       /\ outcome' = Outcome("entry.read", h, "Some", "", 0)
    /\ UNCHANGED <<inner, clones, entries, cb_log, notified,
                   issued, bare>>
    /\ UNCHANGED threads
    /\ UNCHANGED machine

\* RegistryInterface::get / get_mut for Registry's Inner: is there a value
RegistryGet(in, entry_id) == entry_id \in DOMAIN in.map

\* RegistryInterface::get / get_mut for RegistryMap's Inner
RegistryMapGet(in, entry_id) ==
    /\ entry_id \in DOMAIN in.entry_map
    /\ in.entry_map[entry_id] \in DOMAIN in.map

InterfaceGet(in, entry_id) ==
    IF in.kind = "RegistryMap" THEN RegistryMapGet(in, entry_id)
    ELSE RegistryGet(in, entry_id)

\* where the value the interface returns is stored
SlotKey(in, entry_id) ==
    IF in.kind = "RegistryMap" THEN in.entry_map[entry_id] ELSE entry_id

\* downcast_ref::<T> / downcast_mut::<T> on a stored value of type elem
Downcasts(elem, ty) == ty = elem

\* the failure of EntryWriteGuard::get / get_mut and EntryReadGuard::get,
\* "" when they return the reference
GetFailure(g) ==
    IF ~InterfaceGet(inner[g.reg], entries[g.entry].id)
    THEN "Entry not found in the Registry"
    ELSE IF ~Downcasts(inner[g.reg].elem, entries[g.entry].ty)
    THEN "Failed to downcast Entry"
    ELSE ""

\* a release that leaves the lock as it was
Released_KeepsLock(lock, g, panicking) == lock

\* the lock after a guard is released; a write guard released by a
\* panic's unwinding poisons it
Released(lock, g, panicking) ==
    IF g.kind \in {"EntryWriteGuard", "RegistryWriteGuard"}
    THEN [lock EXCEPT !.writer = FALSE,
                      !.poisoned = lock.poisoned \/ panicking]
    ELSE [lock EXCEPT !.readers = @ - 1]

\* the Arc of Entry guard g is the last one of its Inner
LastArc(g) ==
    /\ g.kind \in EntryGuardKinds
    /\ StrongIn(inner, clones, guards (-) SetToBag({g}), g.reg) = 0

\* what the unlock of a lock guard leaves of the lock: a released lock, or,
\* if the RwLock was destroyed before the unlock, what the write to a
\* destroyed RwLock leaves (the release, or nothing)
Unlocked(lock, g, panicking, destroyed) ==
    IF destroyed THEN {Released(lock, g, panicking), lock}
    ELSE {Released(lock, g, panicking)}

\* a guard goes out of scope, its fields are dropped in the order of their
\* declaration: for an Entry guard first `_registry`, its Arc, the last one
\* destroying the Inner and its RwLock, then `guard`, which unlocks
ReleaseGuard(g, panicking) ==
    /\ guards' = guards (-) SetToBag({g})
    /\ inner' = Reaped(inner, clones, guards (-) SetToBag({g}))
    /\ \E lock \in Unlocked(rwlock[g.reg], g, panicking, LastArc(g)) :
           rwlock' = [rwlock EXCEPT ![g.reg] = lock]

\* EntryWriteGuard::get, EntryReadGuard::get (and Deref)
GuardGet(g) ==
    /\ g \in BagToSet(guards)
    /\ g.kind \in EntryGuardKinds
    /\ IF GetFailure(g) = ""
       THEN /\ outcome' = Outcome("guard.get", g.entry, "Ref", "",
                   inner[g.reg].map[SlotKey(inner[g.reg],
                                            entries[g.entry].id)])
            /\ UNCHANGED <<inner, rwlock, guards>>
       ELSE /\ outcome' = Outcome("guard.get", g.entry, "Panic",
                                  GetFailure(g), 0)
            /\ \E unwound \in BOOLEAN :
                  IF unwound THEN ReleaseGuard(g, TRUE)
                  ELSE UNCHANGED <<inner, rwlock, guards>>
    /\ UNCHANGED <<clones, entries, cb_log, notified, issued, bare>>
    /\ UNCHANGED threads
    /\ UNCHANGED machine

\* mutant: the store goes to every slot
StoreAt_EverySlot(m, k, value) == [x \in DOMAIN m |-> value]

\* the caller's store through the `&mut T` of slot k
StoreAt(m, k, value) == [m EXCEPT ![k] = value]

\* EntryWriteGuard::get_mut, and the caller's store through the reference
GuardGetMut(g, value) ==
    /\ g \in BagToSet(guards)
    /\ g.kind = "EntryWriteGuard"
    /\ IF GetFailure(g) = ""
       THEN /\ outcome' = Outcome("guard.get_mut", g.entry, "Ref", "", value)
            /\ inner' = [inner EXCEPT
                  ![g.reg].map = StoreAt(@, SlotKey(inner[g.reg],
                                            entries[g.entry].id), value)]
            /\ UNCHANGED <<rwlock, guards>>
       ELSE /\ outcome' = Outcome("guard.get_mut", g.entry, "Panic",
                                  GetFailure(g), 0)
            /\ \E unwound \in BOOLEAN :
                  IF unwound THEN ReleaseGuard(g, TRUE)
                  ELSE UNCHANGED <<inner, rwlock, guards>>
    /\ UNCHANGED <<clones, entries, cb_log, notified, issued, bare>>
    /\ UNCHANGED threads
    /\ UNCHANGED machine

\* an EntryReadGuard / EntryWriteGuard is dropped
GuardDrop(g) ==
    /\ g \in BagToSet(guards)
    /\ g.kind \in EntryGuardKinds
    /\ ReleaseGuard(g, FALSE)
    /\ outcome' = Returned
    /\ UNCHANGED <<clones, entries, cb_log, notified, issued, bare>>
    /\ UNCHANGED threads
    /\ UNCHANGED machine

\* ------------------------------------------------------------ Registry handle
\* Clone for Registry, RegistryMap and Event
CloneRegistry(r) ==
    /\ clones[r] > 0
    /\ clones[r] < MaxClones
    /\ clones' = [clones EXCEPT ![r] = @ + 1]
    /\ outcome' = Returned
    /\ UNCHANGED <<inner, rwlock, entries, guards, cb_log,
                   notified, issued, bare>>
    /\ UNCHANGED threads
    /\ UNCHANGED machine

\* a Registry, RegistryMap or Event value is dropped; the last Arc
\* destroys the Inner
DropRegistry(r) ==
    /\ clones[r] > 0
    /\ clones' = [clones EXCEPT ![r] = @ - 1]
    /\ inner' = Reaped(inner, [clones EXCEPT ![r] = @ - 1], guards)
    /\ outcome' = Returned
    /\ UNCHANGED <<rwlock, entries, guards, cb_log, notified,
                   issued, bare>>
    /\ UNCHANGED threads
    /\ UNCHANGED machine

\* Registry::set_remove_callback
SetRemoveCallback(r, c) ==
    /\ inner[r].kind = "Registry"
    /\ clones[r] > 0
    /\ CanWrite(r)
    /\ IF rwlock[r].poisoned
       THEN /\ outcome' = PoisonPanic("set_remove_callback", 0)
            /\ UNCHANGED inner
       ELSE /\ inner' = [inner EXCEPT ![r].remove_callback = Recorder(c)]
            /\ outcome' = KeyedOutcome("set_remove_callback", c, 0, "Ok",
                                       "", 0)
    /\ UNCHANGED <<rwlock, clones, entries, guards, cb_log,
                   notified, issued, bare>>
    /\ UNCHANGED threads
    /\ UNCHANGED machine

\* RegistryMap::set_remove_callback
MapSetRemoveCallback(r, c) ==
    /\ inner[r].kind = "RegistryMap"
    /\ clones[r] > 0
    /\ CanWrite(r)
    /\ IF rwlock[r].poisoned
       THEN /\ outcome' = PoisonPanic("set_remove_callback", 0)
            /\ UNCHANGED inner
       ELSE /\ inner' = [inner EXCEPT ![r].remove_callback = Recorder(c)]
            /\ outcome' = KeyedOutcome("set_remove_callback", c, 0, "Ok",
                                       "", 0)
    /\ UNCHANGED <<rwlock, clones, entries, guards, cb_log,
                   notified, issued, bare>>
    /\ UNCHANGED threads
    /\ UNCHANGED machine

\* ------------------------------------------------------------ Event
\* Event::register_observer: register, then as_generic on the result.
\* Each call boxes a new observer; it is named by the number of the Entry
\* the call returns.
RegisterObserver(e) ==
    /\ inner[e].elem = ObserverType
    /\ RegisterCall(e, Len(entries) + 1, "register_observer", UnitType)

\* Event::dispatch: the loop runs under the Registry's read guard
Dispatch(e, args) ==
    /\ inner[e].elem = ObserverType
    /\ clones[e] > 0
    /\ Len(notified) < MaxNotified
    /\ CanRead(e)
    /\ IF rwlock[e].poisoned
       THEN /\ outcome' = PoisonPanic("dispatch", 0)
            /\ UNCHANGED notified
       ELSE /\ notified' = notified \o Notifications(inner[e], args)
            /\ outcome' = Outcome("dispatch", 0, "Ok", "", args)
    /\ UNCHANGED <<inner, rwlock, clones, entries, guards, cb_log,
                   issued, bare>>
    /\ UNCHANGED threads
    /\ UNCHANGED machine

\* ------------------------------------------------------------ TracedRegistry
\* TracedRegistry::new: the Registry t with the closure that dispatches
\* UnRegister on a clone of the Event ev
NewTraced(t, ev, start, evstart) ==
    (t :> [NewInner(start, StoredType) EXCEPT
              !.remove_callback = UnRegisterDispatch(ev)])
    @@ (ev :> NewInner(evstart, ObserverType))

\* TracedRegistry::register: Registry::register, then, the write lock
\* released, the Register dispatch.  When the dispatch panics the
\* unwinding drops the new Entry; the removal's UnRegister dispatch panics
\* again and the process aborts.
TracedRegister(t, ev, value) ==
    /\ clones[t] > 0
    /\ Len(entries) < MaxEntries
    /\ CanWrite(t)
    /\ IF rwlock[t].poisoned
       THEN /\ outcome' = PoisonPanic("traced.register", 0)
            /\ UNCHANGED <<inner, rwlock, entries, issued, notified>>
       ELSE \E checked \in IF Overflows(inner[t]) THEN BOOLEAN ELSE {FALSE} :
            IF checked
            THEN /\ inner' = [inner EXCEPT
                           ![t] = RegisterInner(inner[t], value, TRUE)]
                 /\ rwlock' = [rwlock EXCEPT ![t].poisoned = TRUE]
                 /\ outcome' = OverflowPanic("traced.register")
                 /\ UNCHANGED <<entries, issued, notified>>
            ELSE /\ CanRead(ev)
                 /\ IF rwlock[ev].poisoned
                    THEN /\ inner' = [inner EXCEPT ![t] =
                               RegistryRemove(
                                   RegisterInner(inner[t], value, FALSE),
                                   inner[t].next_id).inner]
                         /\ outcome' = Outcome("traced.register", 0,
                                               "Abort", "PoisonError", 0)
                         /\ UNCHANGED <<rwlock, entries, issued, notified>>
                    ELSE /\ inner' = [inner EXCEPT
                               ![t] = RegisterInner(inner[t], value, FALSE)]
                         /\ entries' = Append(entries,
                               NewEntry(t, inner[t].next_id, StoredType, ""))
                         /\ issued' = [issued EXCEPT
                                         ![t] = Append(@, inner[t].next_id)]
                         /\ notified' = notified \o
                               Notifications(inner[ev],
                                   <<"Register", inner[t].next_id, value>>)
                         /\ outcome' = Outcome("traced.register",
                                           Len(entries) + 1, "Ok", "", value)
                         /\ UNCHANGED rwlock
    /\ UNCHANGED <<clones, guards, cb_log, bare>>
    /\ UNCHANGED threads
    /\ UNCHANGED machine

\* TracedRegistry::register_observer
TracedRegisterObserver(t, ev) ==
    /\ clones[t] > 0
    /\ RegisterObserver(ev)

\* Clone for TracedRegistry
CloneTraced(t, ev) ==
    /\ clones[t] > 0
    /\ clones[t] < MaxClones
    /\ clones' = [clones EXCEPT ![t] = @ + 1, ![ev] = @ + 1]
    /\ outcome' = Returned
    /\ UNCHANGED <<inner, rwlock, entries, guards, cb_log,
                   notified, issued, bare>>
    /\ UNCHANGED threads
    /\ UNCHANGED machine

\* a TracedRegistry value is dropped: its Registry and its Event
DropTraced(t, ev) ==
    /\ clones[t] > 0
    /\ clones' = [clones EXCEPT ![t] = @ - 1, ![ev] = @ - 1]
    /\ inner' = Reaped(inner, [clones EXCEPT ![t] = @ - 1, ![ev] = @ - 1],
                       guards)
    /\ outcome' = Returned
    /\ UNCHANGED <<rwlock, entries, guards, cb_log, notified,
                   issued, bare>>
    /\ UNCHANGED threads
    /\ UNCHANGED machine

\* the process was aborted
Aborted == outcome.tag = "Abort"

\* ------------------------------------------------------------ views
ViewKinds == {"RegistryReadGuard", "RegistryWriteGuard"}

\* the guard Registry::read / write (RegistryMap::read / write) returns; it
\* borrows the Registry value and holds no Arc
View(kind, r) == [kind |-> kind, reg |-> r, entry |-> 0]

\* Registry::read, RegistryMap::read
RegistryRead(r) ==
    /\ clones[r] > 0
    /\ CanRead(r)
    /\ BagCardinality(guards) < MaxGuards
    /\ IF rwlock[r].poisoned
       THEN /\ outcome' = PoisonPanic("read", 0)
            /\ UNCHANGED <<rwlock, guards>>
       ELSE /\ rwlock' = [rwlock EXCEPT ![r].readers = @ + 1]
            /\ guards' = guards (+) SetToBag({View("RegistryReadGuard", r)})
            /\ outcome' = Outcome("read", 0, "Ok", "", 0)
    /\ UNCHANGED <<inner, clones, entries, cb_log, notified, issued, bare,
                   threads>>
    /\ UNCHANGED machine

\* Registry::write, RegistryMap::write
RegistryWrite(r) ==
    /\ clones[r] > 0
    /\ CanWrite(r)
    /\ BagCardinality(guards) < MaxGuards
    /\ IF rwlock[r].poisoned
       THEN /\ outcome' = PoisonPanic("write", 0)
            /\ UNCHANGED <<rwlock, guards>>
       ELSE /\ rwlock' = [rwlock EXCEPT ![r].writer = TRUE]
            /\ guards' = guards (+) SetToBag({View("RegistryWriteGuard", r)})
            /\ outcome' = Outcome("write", 0, "Ok", "", 0)
    /\ UNCHANGED <<inner, clones, entries, cb_log, notified, issued, bare,
                   threads>>
    /\ UNCHANGED machine

\* a RegistryReadGuard / RegistryWriteGuard is dropped
ViewDrop(g) ==
    /\ g \in BagToSet(guards)
    /\ g.kind \in ViewKinds
    /\ ReleaseGuard(g, FALSE)
    /\ outcome' = Returned
    /\ UNCHANGED <<clones, entries, cb_log, notified, issued, bare, threads>>
    /\ UNCHANGED machine

\* what the iterator of a view yields: the (identifier, value) pairs in
\* the BTreeMap's order
Iterated(in) ==
    LET ids == IdsAscending(DOMAIN in.map)
    IN [i \in 1..Len(ids) |-> <<ids[i], in.map[ids[i]]>>]

\* RegistryReadGuard::get, RegistryWriteGuard::get
ViewGet(g, id) ==
    /\ g \in BagToSet(guards)
    /\ g.kind \in ViewKinds
    /\ outcome' = IF id \in DOMAIN inner[g.reg].map
                  THEN KeyedOutcome("view.get", id, 0, "Some", "",
                                    inner[g.reg].map[id])
                  ELSE KeyedOutcome("view.get", id, 0, "None", "", 0)
    /\ UNCHANGED <<inner, rwlock, clones, entries, guards, cb_log,
                   notified, issued, bare, threads>>
    /\ UNCHANGED machine

\* RegistryWriteGuard::get_mut, and the caller's store through the
\* reference
ViewGetMut(g, id, value) ==
    /\ g \in BagToSet(guards)
    /\ g.kind = "RegistryWriteGuard"
    /\ IF id \in DOMAIN inner[g.reg].map
       THEN /\ inner' = [inner EXCEPT ![g.reg].map = StoreAt(@, id, value)]
            /\ outcome' = KeyedOutcome("view.get_mut", id, 0, "Some", "",
                                       value)
       ELSE /\ outcome' = KeyedOutcome("view.get_mut", id, 0, "None", "", 0)
            /\ UNCHANGED inner
    /\ UNCHANGED <<rwlock, clones, entries, guards, cb_log,
                   notified, issued, bare, threads>>
    /\ UNCHANGED machine

\* RegistryReadGuard::iter, RegistryWriteGuard::iter, run to the end
ViewIter(g) ==
    /\ g \in BagToSet(guards)
    /\ g.kind \in ViewKinds
    /\ outcome' = Outcome("view.iter", 0, "Ok", "", Iterated(inner[g.reg]))
    /\ UNCHANGED <<inner, rwlock, clones, entries, guards, cb_log,
                   notified, issued, bare, threads>>
    /\ UNCHANGED machine

\* RegistryWriteGuard::iter_mut, and the caller's store through the
\* reference the iterator yields for identifier id
ViewIterMut(g, id, value) ==
    /\ g \in BagToSet(guards)
    /\ g.kind = "RegistryWriteGuard"
    /\ id \in DOMAIN inner[g.reg].map
    /\ inner' = [inner EXCEPT ![g.reg].map = StoreAt(@, id, value)]
    /\ outcome' = KeyedOutcome("view.iter_mut", id, 0, "Some", "", value)
    /\ UNCHANGED <<rwlock, clones, entries, guards, cb_log,
                   notified, issued, bare, threads>>
    /\ UNCHANGED machine

\* Registry::len, under a read guard of its own
RegistryLenCall(r) ==
    /\ clones[r] > 0
    /\ CanRead(r)
    /\ outcome' = IF rwlock[r].poisoned THEN PoisonPanic("len", 0)
                  ELSE Outcome("len", 0, "Ok", "", RegistryLen(r))
    /\ UNCHANGED <<inner, rwlock, clones, entries, guards, cb_log,
                   notified, issued, bare, threads>>
    /\ UNCHANGED machine

\* Registry::is_empty, under a read guard of its own
RegistryIsEmpty(r) ==
    /\ clones[r] > 0
    /\ CanRead(r)
    /\ outcome' = IF rwlock[r].poisoned THEN PoisonPanic("is_empty", 0)
                  ELSE Outcome("is_empty", 0,
                               IF inner[r].map = EmptyMap THEN "True"
                               ELSE "False", "", 0)
    /\ UNCHANGED <<inner, rwlock, clones, entries, guards, cb_log,
                   notified, issued, bare, threads>>
    /\ UNCHANGED machine

\* ------------------------------------------------------------ calls in steps
\* The calls below are taken one statement at a time, so that the steps of
\* other threads can come in between wherever the locks allow it.  The
\* Registry values the threads call through outlive the calls.

\* the register calls that have not returned yet
PendingRegisters ==
    Cardinality({t \in Threads : threads[t].op = "register"})

\* Registry::register, `self.inner.write().unwrap()`
RegisterLock(t, r, value) ==
    /\ threads[t] = Idle
    /\ inner[r].kind = "Registry"
    /\ inner[r].elem = StoredType
    /\ clones[r] > 0
    /\ Len(entries) + PendingRegisters < MaxEntries
    /\ CanWrite(r)
    /\ IF rwlock[r].poisoned
       THEN /\ outcome' = PoisonPanic("register", 0)
            /\ UNCHANGED <<rwlock, threads>>
       ELSE /\ rwlock' = [rwlock EXCEPT ![r].writer = TRUE]
            /\ threads' = [threads EXCEPT ![t] =
                  Frame("register", "locked", r, 0, IdZero, "", value)]
            /\ UNCHANGED outcome
    /\ UNCHANGED <<inner, clones, entries, guards, cb_log, notified,
                   issued, bare>>
    /\ UNCHANGED machine

\* `let entry_id = lock.next_id;`
RegisterReadId(t) ==
    /\ threads[t].op = "register"
    /\ threads[t].pc = "locked"
    /\ threads' = [threads EXCEPT ![t].id = inner[threads[t].reg].next_id,
                                  ![t].pc = "assigned"]
    /\ UNCHANGED <<inner, rwlock, clones, entries, guards, cb_log,
                   notified, issued, bare, outcome>>
    /\ UNCHANGED machine

\* `lock.map.insert(entry_id, value);`
RegisterInsert(t) ==
    /\ threads[t].op = "register"
    /\ threads[t].pc = "assigned"
    /\ inner' = [inner EXCEPT ![threads[t].reg].map =
                    MapInsert(@, threads[t].id, threads[t].value)]
    /\ threads' = [threads EXCEPT ![t].pc = "inserted"]
    /\ UNCHANGED <<rwlock, clones, entries, guards, cb_log,
                   notified, issued, bare, outcome>>
    /\ UNCHANGED machine

\* `lock.next_id += 1;` with overflow checks it panics at the maximum, and
\* the unwinding releases the write guard, which poisons the lock
RegisterIncrement(t) ==
    /\ threads[t].op = "register"
    /\ threads[t].pc = "inserted"
    /\ LET r == threads[t].reg
       IN \E checked \in IF Overflows(inner[r]) THEN BOOLEAN ELSE {FALSE} :
             IF checked
             THEN /\ rwlock' = [rwlock EXCEPT ![r].writer = FALSE,
                                              ![r].poisoned = TRUE]
                  /\ threads' = [threads EXCEPT ![t] = Idle]
                  /\ outcome' = OverflowPanic("register")
                  /\ UNCHANGED inner
             ELSE /\ inner' = [inner EXCEPT
                                 ![r].next_id = IdWrappingSucc(@)]
                  /\ threads' = [threads EXCEPT ![t].pc = "incremented"]
                  /\ UNCHANGED <<rwlock, outcome>>
    /\ UNCHANGED <<clones, entries, guards, cb_log, notified, issued, bare>>
    /\ UNCHANGED machine

\* `Entry::new(..)`, and the write guard goes out of scope
RegisterReturn(t) ==
    /\ threads[t].op = "register"
    /\ threads[t].pc = "incremented"
    /\ LET r == threads[t].reg
       IN /\ entries' = Append(entries,
                            NewEntry(r, threads[t].id, StoredType,
                                     threads[t].key))
          /\ issued' = [issued EXCEPT ![r] = Append(@, threads[t].id)]
          /\ bare' = [bare EXCEPT
                        ![r] = @ \/ inner[r].remove_callback.kind = "None"]
          /\ rwlock' = [rwlock EXCEPT ![r].writer = FALSE]
          /\ outcome' = Outcome("register", Len(entries) + 1, "Ok", "",
                                threads[t].value)
    /\ threads' = [threads EXCEPT ![t] = Idle]
    /\ UNCHANGED <<inner, clones, guards, cb_log, notified>>
    /\ UNCHANGED machine

\* RegistryMap::register, `self.inner.write().unwrap()`, the test
\* `lock.map.contains_key(&key)` and `let entry_id = lock.next_id;`
MapRegisterLock(t, r, key, value) ==
    /\ threads[t] = Idle
    /\ inner[r].kind = "RegistryMap"
    /\ clones[r] > 0
    /\ Len(entries) + PendingRegisters < MaxEntries
    /\ CanWrite(r)
    /\ IF rwlock[r].poisoned
       THEN /\ outcome' = KeyedOutcome("map.register", key, 0, "Panic",
                                       "PoisonError", value)
            /\ UNCHANGED <<rwlock, threads>>
       ELSE IF KeyTaken(inner[r], key)
       THEN /\ outcome' = KeyedOutcome("map.register", key, 0, "Err",
                                       "KeyAlreadyExists", value)
            /\ UNCHANGED <<rwlock, threads>>
       ELSE /\ rwlock' = [rwlock EXCEPT ![r].writer = TRUE]
            /\ threads' = [threads EXCEPT ![t] =
                  Frame("register", "keyed", r, 0, inner[r].next_id, key,
                        value)]
            /\ UNCHANGED outcome
    /\ UNCHANGED <<inner, clones, entries, guards, cb_log, notified,
                   issued, bare>>
    /\ UNCHANGED machine

\* `lock.map.insert(key.clone(), value);`
MapRegisterInsert(t) ==
    /\ threads[t].op = "register"
    /\ threads[t].pc = "keyed"
    /\ inner' = [inner EXCEPT ![threads[t].reg].map =
                    MapInsert(@, threads[t].key, threads[t].value)]
    /\ threads' = [threads EXCEPT ![t].pc = "stored"]
    /\ UNCHANGED <<rwlock, clones, entries, guards, cb_log,
                   notified, issued, bare, outcome>>
    /\ UNCHANGED machine

\* `lock.entry_map.insert(entry_id, key);` then comes `lock.next_id += 1;`
MapRegisterLink(t) ==
    /\ threads[t].op = "register"
    /\ threads[t].pc = "stored"
    /\ inner' = [inner EXCEPT ![threads[t].reg].entry_map =
                    MapInsert(@, threads[t].id, threads[t].key)]
    /\ threads' = [threads EXCEPT ![t].pc = "inserted"]
    /\ UNCHANGED <<rwlock, clones, entries, guards, cb_log,
                   notified, issued, bare, outcome>>
    /\ UNCHANGED machine

\* Drop for Entry, `self.iface.upgrade()` and `arc.write()`: with the
\* Inner gone or the lock poisoned the drop ends here
DropLock(t, h) ==
    /\ threads[t] = Idle
    /\ h \in DOMAIN entries
    /\ entries[h].state = "held"
    /\ SoleOwner(h)
    /\ Unborrowed(h)
    /\ Alive(entries[h].reg) => CanWrite(entries[h].reg)
    /\ IF DropRemoves(h)
       THEN /\ rwlock' = [rwlock EXCEPT ![entries[h].reg].writer = TRUE]
            /\ entries' = [entries EXCEPT ![h].state = "dropping"]
            /\ threads' = [threads EXCEPT ![t] =
                  Frame("drop", "locked", entries[h].reg, h, entries[h].id,
                        "", 0)]
            /\ UNCHANGED outcome
       ELSE /\ entries' = [entries EXCEPT ![h].state = "dropped"]
            /\ outcome' = Returned
            /\ UNCHANGED <<rwlock, threads>>
    /\ UNCHANGED <<inner, clones, guards, cb_log, notified, issued, bare>>
    /\ UNCHANGED machine

\* the thread's drop ends with a panic that unwinds through the write guard
DropPanics(t, msg) ==
    /\ rwlock' = [rwlock EXCEPT ![threads[t].reg].writer = FALSE,
                                ![threads[t].reg].poisoned = TRUE]
    /\ entries' = [entries EXCEPT ![threads[t].entry].state = "dropped"]
    /\ outcome' = Outcome("drop", threads[t].entry, "Panic", msg, 0)
    /\ threads' = [threads EXCEPT ![t] = Idle]

\* Inner::remove of Registry, `self.map.remove(&entry_id)`; of RegistryMap,
\* `self.entry_map.remove(&entry_id).expect(..)`
DropRemove(t) ==
    /\ threads[t].op = "drop"
    /\ threads[t].pc = "locked"
    /\ LET r == threads[t].reg
           id == threads[t].id
       IN IF inner[r].kind = "RegistryMap"
          THEN IF id \in DOMAIN inner[r].entry_map
               THEN /\ inner' = [inner EXCEPT
                                   ![r].entry_map = MapRemove(@, id)]
                    /\ threads' = [threads EXCEPT
                          ![t].key = inner[r].entry_map[id],
                          ![t].pc = "unlinked"]
                    /\ UNCHANGED <<rwlock, entries, outcome>>
               ELSE /\ DropPanics(t,
                          "Failed to find key for EntryId during removal!")
                    /\ UNCHANGED inner
          ELSE /\ IF id \in DOMAIN inner[r].map
                  THEN /\ inner' = [inner EXCEPT ![r].map = MapRemove(@, id)]
                       /\ threads' = [threads EXCEPT
                             ![t].value = inner[r].map[id],
                             ![t].pc = "removed"]
                  ELSE /\ threads' = [threads EXCEPT ![t].pc = "finished"]
                       /\ UNCHANGED inner
               /\ UNCHANGED <<rwlock, entries, outcome>>
    /\ UNCHANGED <<clones, guards, cb_log, notified, issued, bare>>
    /\ UNCHANGED machine

\* Inner::remove of RegistryMap, `self.map.remove(&key)`
DropRemoveValue(t) ==
    /\ threads[t].op = "drop"
    /\ threads[t].pc = "unlinked"
    /\ LET r == threads[t].reg
           key == threads[t].key
       IN IF key \in DOMAIN inner[r].map
          THEN /\ inner' = [inner EXCEPT ![r].map = MapRemove(@, key)]
               /\ threads' = [threads EXCEPT ![t].value = inner[r].map[key],
                                             ![t].pc = "removed"]
          ELSE /\ threads' = [threads EXCEPT ![t].pc = "finished"]
               /\ UNCHANGED inner
    /\ UNCHANGED <<rwlock, clones, entries, guards, cb_log, notified,
                   issued, bare, outcome>>
    /\ UNCHANGED machine

\* the invocation the thread's removal makes: the callback and its
\* arguments, as Inner::remove passes them
RemovalCall(t) ==
    LET in == inner[threads[t].reg]
    IN IF in.remove_callback.kind = "None" THEN <<>>
       ELSE IF in.kind = "RegistryMap"
       THEN << <<in.remove_callback, threads[t].id, threads[t].key,
                 threads[t].value>> >>
       ELSE << <<in.remove_callback, threads[t].id, threads[t].value>> >>

\* Inner::remove, `callback(entry_id, value)`, from the call to its return
DropCallback(t) ==
    /\ threads[t].op = "drop"
    /\ threads[t].pc = "removed"
    /\ LET dsp == CallbackDispatch(RemovalCall(t))
       IN IF dsp = <<>>
          THEN /\ cb_log' = cb_log \o CallbackRecords(RemovalCall(t))
               /\ threads' = [threads EXCEPT ![t].pc = "finished"]
               /\ UNCHANGED <<rwlock, entries, notified, outcome>>
          ELSE /\ CanRead(dsp[1].ev)
               /\ IF rwlock[dsp[1].ev].poisoned
                  THEN /\ DropPanics(t, "PoisonError")
                       /\ UNCHANGED notified
                  ELSE /\ notified' = notified \o
                             Notifications(inner[dsp[1].ev], dsp[1].args)
                       /\ threads' = [threads EXCEPT ![t].pc = "finished"]
                       /\ UNCHANGED <<rwlock, entries, outcome>>
               /\ UNCHANGED cb_log
    /\ UNCHANGED <<inner, clones, guards, issued, bare>>
    /\ UNCHANGED machine

\* Drop for Entry, the write guard and the upgraded Arc go out of scope
DropUnlock(t) ==
    /\ threads[t].op = "drop"
    /\ threads[t].pc = "finished"
    /\ rwlock' = [rwlock EXCEPT ![threads[t].reg].writer = FALSE]
    /\ entries' = [entries EXCEPT ![threads[t].entry].state = "dropped"]
    /\ threads' = [threads EXCEPT ![t] = Idle]
    /\ outcome' = Returned
    /\ UNCHANGED <<inner, clones, guards, cb_log, notified, issued, bare>>
    /\ UNCHANGED machine

\* the observer Event::dispatch's loop visits next: the BTreeMap iterator
\* yields the keys above the last one visited, in ascending order
NextObserver(t) ==
    LET in == inner[threads[t].reg]
        ahead == {i \in DOMAIN in.map :
                     threads[t].entry = 0 \/ IdLess(threads[t].id, i)}
    IN IdsAscending(ahead)

\* Event::dispatch, `self.observers.read()`; the read guard lives as long
\* as the loop.  The frame counts the observers notified so far.
DispatchLock(t, e, args) ==
    /\ threads[t] = Idle
    /\ inner[e].elem = ObserverType
    /\ clones[e] > 0
    /\ Len(notified) < MaxNotified
    /\ CanRead(e)
    /\ IF rwlock[e].poisoned
       THEN /\ outcome' = PoisonPanic("dispatch", 0)
            /\ UNCHANGED <<rwlock, threads>>
       ELSE /\ rwlock' = [rwlock EXCEPT ![e].readers = @ + 1]
            /\ threads' = [threads EXCEPT ![t] =
                  Frame("dispatch", "iterating", e, 0, IdZero, "", args)]
            /\ UNCHANGED outcome
    /\ UNCHANGED <<inner, clones, entries, guards, cb_log, notified,
                   issued, bare>>
    /\ UNCHANGED machine

\* one turn of the loop, `observer.notify(args.clone())`
DispatchNotify(t) ==
    /\ threads[t].op = "dispatch"
    /\ NextObserver(t) # <<>>
    /\ notified' = Append(notified,
          <<inner[threads[t].reg].map[NextObserver(t)[1]],
            threads[t].value>>)
    /\ threads' = [threads EXCEPT ![t].id = NextObserver(t)[1],
                                  ![t].entry = @ + 1]
    /\ UNCHANGED <<inner, rwlock, clones, entries, guards, cb_log,
                   issued, bare, outcome>>
    /\ UNCHANGED machine

\* the loop is over and the read guard goes out of scope
DispatchReturn(t) ==
    /\ threads[t].op = "dispatch"
    /\ NextObserver(t) = <<>>
    /\ rwlock' = [rwlock EXCEPT ![threads[t].reg].readers = @ - 1]
    /\ outcome' = Outcome("dispatch", 0, "Ok", "", threads[t].value)
    /\ threads' = [threads EXCEPT ![t] = Idle]
    /\ UNCHANGED <<inner, clones, entries, guards, cb_log, notified,
                   issued, bare>>
    /\ UNCHANGED machine

\* TracedRegistry::register, `self.registry.register(value.clone())`: the
\* whole of Registry::register, under the write lock.  The Entry is a local
\* of the call until it returns.
TracedRegisterInsert(t, tr, value) ==
    /\ threads[t] = Idle
    /\ clones[tr] > 0
    /\ Cardinality({h \in DOMAIN entries : entries[h].reg = tr}) < MaxEntries
    /\ CanWrite(tr)
    /\ IF rwlock[tr].poisoned
       THEN /\ outcome' = PoisonPanic("traced.register", 0)
            /\ UNCHANGED <<inner, rwlock, entries, issued, threads>>
       ELSE \E checked \in IF Overflows(inner[tr]) THEN BOOLEAN ELSE {FALSE} :
            /\ inner' = [inner EXCEPT
                           ![tr] = RegisterInner(inner[tr], value, checked)]
            /\ IF checked
               THEN /\ rwlock' = [rwlock EXCEPT ![tr].poisoned = TRUE]
                    /\ outcome' = OverflowPanic("traced.register")
                    /\ UNCHANGED <<entries, issued, threads>>
               ELSE /\ entries' = Append(entries,
                          [NewEntry(tr, inner[tr].next_id, StoredType, "")
                              EXCEPT !.state = "local"])
                    /\ issued' = [issued EXCEPT
                                    ![tr] = Append(@, inner[tr].next_id)]
                    /\ threads' = [threads EXCEPT ![t] =
                          Frame("traced.register", "registered", tr,
                                Len(entries) + 1, inner[tr].next_id, "",
                                value)]
                    /\ UNCHANGED <<rwlock, outcome>>
    /\ UNCHANGED <<clones, guards, cb_log, notified, bare>>
    /\ UNCHANGED machine

\* TracedRegistry::register, `self.event.dispatch((Register, id, value))`
\* and the return of the Entry; the registry's write lock was released
\* when Registry::register returned.  The dispatch's loop is taken as one
\* step.  When it panics the unwinding drops the Entry, whose removal
\* dispatches UnRegister and panics again: the process aborts.
TracedRegisterDispatch(t, ev) ==
    /\ threads[t].op = "traced.register"
    /\ threads[t].pc = "registered"
    /\ CanRead(ev)
    /\ IF rwlock[ev].poisoned
       THEN /\ CanWrite(threads[t].reg)
            /\ inner' = [inner EXCEPT ![threads[t].reg] =
                            RegistryRemove(@, threads[t].id).inner]
            /\ outcome' = Outcome("traced.register", 0, "Abort",
                                  "PoisonError", 0)
            /\ UNCHANGED <<entries, notified>>
       ELSE /\ notified' = notified \o
                  Notifications(inner[ev],
                      <<"Register", threads[t].id, threads[t].value>>)
            /\ entries' = [entries EXCEPT ![threads[t].entry].state = "held"]
            /\ outcome' = Outcome("traced.register", threads[t].entry,
                                  "Ok", "", threads[t].value)
            /\ UNCHANGED inner
    /\ threads' = [threads EXCEPT ![t] = Idle]
    /\ UNCHANGED <<rwlock, clones, guards, cb_log, issued, bare>>
    /\ UNCHANGED machine

\* ------------------------------------------------------------ specifications
\* the identifiers of the Entries of ents that registry r returned
IssuedTo(ents, r) ==
    LET own == SelectSeq(ents, LAMBDA e : e.reg = r)
    IN [i \in 1..Len(own) |-> own[i].id]

\* the state in which the registries of inn exist, the program holds the
\* Entries ents and no call is in progress
RegistriesStarted(inn, ents) ==
    /\ inner = inn
    /\ rwlock = [r \in DOMAIN inn |-> FreshLock]
    /\ clones = [r \in DOMAIN inn |-> 1]
    /\ entries = ents
    /\ guards = EmptyBag
    /\ cb_log = <<>>
    /\ notified = <<>>
    /\ issued = [r \in DOMAIN inn |-> IssuedTo(ents, r)]
    /\ bare = [r \in DOMAIN inn |->
                  \E i \in DOMAIN ents :
                      /\ ents[i].reg = r
                      /\ inn[r].remove_callback.kind = "None"]
    /\ threads = [t \in Threads |-> Idle]
    /\ outcome = Returned

Started(inn, ents) ==
    /\ RegistriesStarted(inn, ents)
    /\ sm = NoMachine
    /\ mock = NoCalls

\* the state once the registries of inn are constructed
Constructed(inn) == Started(inn, <<>>)

\* An Inner whose counter has gone round once.  In a build without
\* overflow checks, `let h = r.register(v)` followed by 2^32 - 1 times
\* `drop(r.register(v))` leaves the slot of h at identifier 0 and
\* next_id = 0 again.
Lapped(in) == [in EXCEPT !.next_id = IdZero]

\* the value the Entry held from the start was registered with
FirstValue == 11
FirstKey == "a"

\* the Registry<i32> with callback cb after `register(FirstValue)` and a
\* lap of the counter, and the Entry that register returned
LappedRegistry(cb) ==
    Lapped(RegisterInner([NewInner(IdZero, StoredType) EXCEPT
                             !.remove_callback = cb], FirstValue, FALSE))

\* a Registry<i32>
Init ==
    \/ \E start \in StartIds :
          Constructed([r \in {"r1"} |-> NewInner(start, StoredType)])
    \/ \E cb \in {NoCallback} \cup {Recorder(c) : c \in Callbacks} :
          Started([r \in {"r1"} |-> LappedRegistry(cb)],
                  <<NewEntry("r1", IdZero, StoredType, "")>>)

Next ==
    \/ \E v \in Values : Register("r1", v)
    \/ \E h \in DOMAIN entries : DropEntry(h)
    \/ \E h \in DOMAIN entries : AsGeneric(h)
    \/ \E h \in DOMAIN entries : Leak(h)
    \/ \E h \in DOMAIN entries : EntryWrite(h)
    \/ \E h \in DOMAIN entries : EntryRead(h)
    \/ \E g \in BagToSet(guards) : GuardGet(g)
    \/ \E g \in BagToSet(guards), v \in Values : GuardGetMut(g, v)
    \/ \E g \in BagToSet(guards) : GuardDrop(g)
    \/ CloneRegistry("r1")
    \/ DropRegistry("r1")
    \/ \E c \in Callbacks : SetRemoveCallback("r1", c)

Spec == Init /\ [][Next]_vars

\* a Registry<i32> that holds nothing at the start
InitEmpty ==
    \E start \in StartIds :
        Constructed([r \in {"r1"} |-> NewInner(start, StoredType)])

SpecEmpty == InitEmpty /\ [][Next]_vars

\* a Registry<i32> read and written through views and through Entries
NextViews ==
    \/ \E v \in Values : Register("r1", v)
    \/ \E h \in DOMAIN entries : DropEntry(h)
    \/ \E h \in DOMAIN entries : AsGeneric(h)
    \/ \E h \in DOMAIN entries : Leak(h)
    \/ \E h \in DOMAIN entries : EntryWrite(h)
    \/ \E h \in DOMAIN entries : EntryRead(h)
    \/ \E g \in BagToSet(guards) : GuardGet(g)
    \/ \E g \in BagToSet(guards), v \in Values : GuardGetMut(g, v)
    \/ \E g \in BagToSet(guards) : GuardDrop(g)
    \/ RegistryRead("r1")
    \/ RegistryWrite("r1")
    \/ \E g \in BagToSet(guards), i \in DOMAIN inner["r1"].map \cup {IdZero} :
          ViewGet(g, i)
    \/ \E g \in BagToSet(guards), i \in DOMAIN inner["r1"].map \cup {IdZero},
          v \in Values : ViewGetMut(g, i, v)
    \/ \E g \in BagToSet(guards) : ViewIter(g)
    \/ \E g \in BagToSet(guards), i \in DOMAIN inner["r1"].map,
          v \in Values : ViewIterMut(g, i, v)
    \/ \E g \in BagToSet(guards) : ViewDrop(g)
    \/ RegistryLenCall("r1")
    \/ RegistryIsEmpty("r1")

SpecViews == Init /\ [][NextViews]_vars

\* a Registry<i32> whose removal callback is replaced
NextCallbacks ==
    \/ \E v \in Values : Register("r1", v)
    \/ \E h \in DOMAIN entries : DropEntry(h)
    \/ \E h \in DOMAIN entries : Leak(h)
    \/ \E c \in Replacements : SetRemoveCallback("r1", c)
    \/ CloneRegistry("r1")
    \/ DropRegistry("r1")

SpecCallbacks == Init /\ [][NextCallbacks]_vars

\* two Registry<i32> values, which issue the same identifiers
InitTwo ==
    \E start \in StartIds :
        Constructed([r \in {"r1", "r2"} |-> NewInner(start, StoredType)])

NextTwo ==
    \/ \E r \in {"r1", "r2"}, v \in Values : Register(r, v)
    \/ \E h \in DOMAIN entries : DropEntry(h)
    \/ \E r \in {"r1", "r2"} : DropRegistry(r)
    \/ \E r \in {"r1", "r2"}, c \in Callbacks : SetRemoveCallback(r, c)

SpecTwo == InitTwo /\ [][NextTwo]_vars

\* a Registry<i32> on which some register calls do not keep the Entry
NextUnused ==
    \/ \E v \in Values : Register("r1", v)
    \/ \E v \in Values : RegisterDropped("r1", v)
    \/ \E h \in DOMAIN entries : DropEntry(h)
    \/ \E h \in DOMAIN entries : EntryWrite(h)
    \/ \E g \in BagToSet(guards), v \in Values : GuardGetMut(g, v)
    \/ \E g \in BagToSet(guards) : GuardDrop(g)
    \/ \E c \in Callbacks : SetRemoveCallback("r1", c)
    \/ CloneRegistry("r1")

SpecUnused == Init /\ [][NextUnused]_vars

\* two Registry<i32> values whose Entries are erased and kept together;
\* the first may have gone round its counter, the second is new
InitCollection ==
    \/ InitTwo
    \/ \E cb \in {NoCallback} \cup {Recorder(c) : c \in Callbacks} :
          Started(("r1" :> LappedRegistry(cb))
                     @@ ("r2" :> NewInner(IdZero, StoredType)),
                  <<NewEntry("r1", IdZero, StoredType, "")>>)

NextCollection ==
    \/ \E r \in {"r1", "r2"}, v \in Values : Register(r, v)
    \/ \E h \in DOMAIN entries : AsGeneric(h)
    \/ \E h \in DOMAIN entries : DropEntry(h)
    \/ \E r \in {"r1", "r2"} : DropRegistry(r)
    \/ \E r \in {"r1", "r2"}, c \in Callbacks : SetRemoveCallback(r, c)

SpecCollection == InitCollection /\ [][NextCollection]_vars

\* a Registry<i32> whose Entries are kept in Arc<Entry> values
NextShared ==
    \/ \E v \in Values : Register("r1", v)
    \/ \E h \in DOMAIN entries : ArcClone(h)
    \/ \E h \in DOMAIN entries : ArcDrop(h)
    \/ \E h \in DOMAIN entries : DropEntry(h)
    \/ \E h \in DOMAIN entries : EntryRead(h)
    \/ \E g \in BagToSet(guards) : GuardGet(g)
    \/ \E g \in BagToSet(guards) : GuardDrop(g)
    \/ RegistryLenCall("r1")
    \/ \E c \in Callbacks : SetRemoveCallback("r1", c)
    \/ CloneRegistry("r1")
    \/ DropRegistry("r1")

SpecShared == Init /\ [][NextShared]_vars

\* a RegistryMap<String, i32>
InitMap ==
    \/ \E start \in StartIds :
          Constructed([r \in {"m1"} |-> NewMapInner(start)])
    \/ Started([r \in {"m1"} |->
                   Lapped(MapRegisterInner(NewMapInner(IdZero), FirstKey,
                                           FirstValue, FALSE))],
               <<NewEntry("m1", IdZero, StoredType, FirstKey)>>)

NextMap ==
    \/ \E k \in Keys, v \in Values : MapRegister("m1", k, v)
    \/ \E h \in DOMAIN entries : DropEntry(h)
    \/ \E h \in DOMAIN entries : AsGeneric(h)
    \/ \E h \in DOMAIN entries : Leak(h)
    \/ \E h \in DOMAIN entries : EntryWrite(h)
    \/ \E h \in DOMAIN entries : EntryRead(h)
    \/ \E g \in BagToSet(guards) : GuardGet(g)
    \/ \E g \in BagToSet(guards), v \in Values : GuardGetMut(g, v)
    \/ \E g \in BagToSet(guards) : GuardDrop(g)
    \/ CloneRegistry("m1")
    \/ DropRegistry("m1")
    \/ \E c \in Callbacks : MapSetRemoveCallback("m1", c)

SpecMap == InitMap /\ [][NextMap]_vars

\* an Event<i32>
InitEvent ==
    \/ \E start \in StartIds :
          Constructed([r \in {"e1"} |-> NewInner(start, ObserverType)])
    \/ Started([r \in {"e1"} |->
                   Lapped(RegisterInner(NewInner(IdZero, ObserverType),
                                        1, FALSE))],
               <<NewEntry("e1", IdZero, UnitType, "")>>)

NextEvent ==
    \/ RegisterObserver("e1")
    \/ \E a \in EventArgs : Dispatch("e1", a)
    \/ \E h \in DOMAIN entries : DropEntry(h)
    \/ \E h \in DOMAIN entries : Leak(h)
    \/ \E h \in DOMAIN entries : EntryWrite(h)
    \/ \E h \in DOMAIN entries : EntryRead(h)
    \/ \E g \in BagToSet(guards) : GuardGet(g)
    \/ \E g \in BagToSet(guards) : GuardDrop(g)
    \/ CloneRegistry("e1")
    \/ DropRegistry("e1")

SpecEvent == InitEvent /\ [][NextEvent]_vars

\* a TracedRegistry<i32>; nothing runs once the process has aborted
InitTraced ==
    \/ \E start \in StartIds, evstart \in StartIds :
          Constructed(NewTraced("t1", "t1.event", start, evstart))
    \/ Started([NewTraced("t1", "t1.event", IdZero, IdZero) EXCEPT
                   !["t1"] = Lapped(RegisterInner(@, FirstValue, FALSE))],
               <<NewEntry("t1", IdZero, StoredType, "")>>)

NextTraced ==
    \/ ~Aborted /\ \E v \in Values : TracedRegister("t1", "t1.event", v)
    \/ ~Aborted /\ TracedRegisterObserver("t1", "t1.event")
    \/ ~Aborted /\ \E h \in DOMAIN entries : DropEntry(h)
    \/ ~Aborted /\ \E h \in DOMAIN entries : AsGeneric(h)
    \/ ~Aborted /\ \E h \in DOMAIN entries : EntryWrite(h)
    \/ ~Aborted /\ \E g \in BagToSet(guards) : GuardGet(g)
    \/ ~Aborted /\ \E g \in BagToSet(guards), v \in Values : GuardGetMut(g, v)
    \/ ~Aborted /\ \E g \in BagToSet(guards) : GuardDrop(g)
    \/ ~Aborted /\ CloneTraced("t1", "t1.event")
    \/ ~Aborted /\ DropTraced("t1", "t1.event")

SpecTraced == InitTraced /\ [][NextTraced]_vars

\* a Registry<i32> used by two threads
NextThreads ==
    \/ \E t \in Threads, v \in Values : RegisterLock(t, "r1", v)
    \/ \E t \in Threads : RegisterReadId(t)
    \/ \E t \in Threads : RegisterInsert(t)
    \/ \E t \in Threads : RegisterIncrement(t)
    \/ \E t \in Threads : RegisterReturn(t)
    \/ \E t \in Threads, h \in DOMAIN entries : DropLock(t, h)
    \/ \E t \in Threads : DropRemove(t)
    \/ \E t \in Threads : DropCallback(t)
    \/ \E t \in Threads : DropUnlock(t)
    \/ RegistryRead("r1")
    \/ RegistryWrite("r1")
    \/ \E g \in BagToSet(guards) : ViewDrop(g)
    \/ \E h \in DOMAIN entries : EntryRead(h)
    \/ \E h \in DOMAIN entries : EntryWrite(h)
    \/ \E g \in BagToSet(guards) : GuardDrop(g)
    \/ \E c \in Callbacks : SetRemoveCallback("r1", c)

SpecThreads == Init /\ [][NextThreads]_vars

\* a RegistryMap<String, i32> used by two threads
NextMapThreads ==
    \/ \E t \in Threads, k \in Keys, v \in Values :
          MapRegisterLock(t, "m1", k, v)
    \/ \E t \in Threads : MapRegisterInsert(t)
    \/ \E t \in Threads : MapRegisterLink(t)
    \/ \E t \in Threads : RegisterIncrement(t)
    \/ \E t \in Threads : RegisterReturn(t)
    \/ \E t \in Threads, h \in DOMAIN entries : DropLock(t, h)
    \/ \E t \in Threads : DropRemove(t)
    \/ \E t \in Threads : DropRemoveValue(t)
    \/ \E t \in Threads : DropCallback(t)
    \/ \E t \in Threads : DropUnlock(t)
    \/ RegistryRead("m1")
    \/ RegistryWrite("m1")
    \/ \E g \in BagToSet(guards) : ViewDrop(g)
    \/ \E c \in Callbacks : MapSetRemoveCallback("m1", c)

SpecMapThreads == InitMap /\ [][NextMapThreads]_vars

\* an Event<i32> used by two threads
NextEventThreads ==
    \/ \E t \in Threads, a \in EventArgs : DispatchLock(t, "e1", a)
    \/ \E t \in Threads : DispatchNotify(t)
    \/ \E t \in Threads : DispatchReturn(t)
    \/ RegisterObserver("e1")
    \/ \E h \in DOMAIN entries : DropEntry(h)
    \/ \E h \in DOMAIN entries : Leak(h)

SpecEventThreads == InitEvent /\ [][NextEventThreads]_vars

\* an Event<i32> on which two threads dispatch and drop observer Entries
NextDispatchThreads ==
    \/ \E t \in Threads, a \in EventArgs : DispatchLock(t, "e1", a)
    \/ \E t \in Threads : DispatchNotify(t)
    \/ \E t \in Threads : DispatchReturn(t)
    \/ RegisterObserver("e1")
    \/ \E t \in Threads, h \in DOMAIN entries : DropLock(t, h)
    \/ \E t \in Threads : DropRemove(t)
    \/ \E t \in Threads : DropCallback(t)
    \/ \E t \in Threads : DropUnlock(t)

SpecDispatchThreads == InitEvent /\ [][NextDispatchThreads]_vars

\* a new TracedRegistry<i32> on which register_observer was called once,
\* used by two threads
InitTracedThreads ==
    Started([NewTraced("t1", "t1.event", IdZero, IdZero) EXCEPT
               !["t1.event"] = RegisterInner(@, 1, FALSE)],
            <<NewEntry("t1.event", IdZero, UnitType, "")>>)

NextTracedThreads ==
    \/ ~Aborted /\ \E t \in Threads, v \in Values :
                      TracedRegisterInsert(t, "t1", v)
    \/ ~Aborted /\ \E t \in Threads : TracedRegisterDispatch(t, "t1.event")
    \/ ~Aborted /\ \E h \in DOMAIN entries : DropEntry(h)

SpecTracedThreads == InitTracedThreads /\ [][NextTracedThreads]_vars

\* ---- the drop of an EntryWriteGuard or EntryReadGuard, field by field
\* `_registry` is dropped: the Arc count goes down and the last Arc destroys
\* the Inner and its RwLock; `guard` still holds the lock
GuardDropRegistry(t, g) ==
    /\ threads[t] = Idle
    /\ g \in BagToSet(guards)
    /\ g.kind \in EntryGuardKinds
    /\ guards' = guards (-) SetToBag({g})
    /\ inner' = Reaped(inner, clones, guards (-) SetToBag({g}))
    /\ threads' = [threads EXCEPT ![t] =
          Frame("guard.drop", "registry dropped", g.reg, g.entry,
                entries[g.entry].id, g.kind, 0)]
    /\ UNCHANGED <<rwlock, clones, entries, cb_log, notified, issued, bare,
                   outcome>>
    /\ UNCHANGED machine

\* `guard` is dropped: the RwLock is unlocked, destroyed or not
GuardDropGuard(t) ==
    /\ threads[t].op = "guard.drop"
    /\ threads[t].pc = "registry dropped"
    /\ LET r == threads[t].reg
       IN \E lock \in Unlocked(rwlock[r], [kind |-> threads[t].key], FALSE,
                               ~Alive(r)) :
              rwlock' = [rwlock EXCEPT ![r] = lock]
    /\ threads' = [threads EXCEPT ![t] = Idle]
    /\ outcome' = Returned
    /\ UNCHANGED <<inner, clones, guards, entries, cb_log, notified, issued,
                   bare>>
    /\ UNCHANGED machine

\* Entries read and written through guards by two threads while the
\* Registry values are cloned and dropped
NextGuardDrop ==
    \/ \E v \in Values : Register("r1", v)
    \/ \E h \in DOMAIN entries : EntryWrite(h)
    \/ \E h \in DOMAIN entries : EntryRead(h)
    \/ \E g \in BagToSet(guards), v \in Values : GuardGetMut(g, v)
    \/ \E t \in Threads, g \in BagToSet(guards) : GuardDropRegistry(t, g)
    \/ \E t \in Threads : GuardDropGuard(t)
    \/ CloneRegistry("r1")
    \/ DropRegistry("r1")

SpecGuardDrop == Init /\ [][NextGuardDrop]_vars

\* a Registry<i32> and a TracedRegistry<i32>, dropped before or after the
\* Entries they returned; one of them may have gone round its counter
InitTeardown ==
    \/ Constructed(("r1" :> NewInner(IdZero, StoredType))
                      @@ NewTraced("t1", "t1.event", IdZero, IdZero))
    \/ \E cb \in {Recorder(c) : c \in Callbacks} :
          Started(("r1" :> LappedRegistry(cb))
                     @@ NewTraced("t1", "t1.event", IdZero, IdZero),
                  <<NewEntry("r1", IdZero, StoredType, "")>>)
    \/ Started(("r1" :> NewInner(IdZero, StoredType))
                   @@ [NewTraced("t1", "t1.event", IdZero, IdZero) EXCEPT
                          !["t1"] = Lapped(RegisterInner(@, FirstValue, FALSE))],
               <<NewEntry("t1", IdZero, StoredType, "")>>)

NextTeardown ==
    \/ ~Aborted /\ \E v \in Values : Register("r1", v)
    \/ ~Aborted /\ \E c \in Callbacks : SetRemoveCallback("r1", c)
    \/ ~Aborted /\ DropRegistry("r1")
    \/ ~Aborted /\ \E v \in Values : TracedRegister("t1", "t1.event", v)
    \/ ~Aborted /\ TracedRegisterObserver("t1", "t1.event")
    \/ ~Aborted /\ DropTraced("t1", "t1.event")
    \/ ~Aborted /\ \E h \in DOMAIN entries : DropEntry(h)
    \/ ~Aborted /\ \E h \in DOMAIN entries : EntryRead(h)
    \/ ~Aborted /\ \E g \in BagToSet(guards) : GuardDrop(g)

SpecTeardown == InitTeardown /\ [][NextTeardown]_vars

\* ---- a TracedRegistry used by two threads, to completion
\* a TracedRegistry<i32> with one observer, new, at the end of its counter
\* or gone round it with the first Entry held
InitTracedCalls ==
    \/ \E start \in StartIds :
          Started([NewTraced("t1", "t1.event", start, IdZero) EXCEPT
                     !["t1.event"] = RegisterInner(@, 1, FALSE)],
                  <<NewEntry("t1.event", IdZero, UnitType, "")>>)
    \/ Started([NewTraced("t1", "t1.event", IdZero, IdZero) EXCEPT
                   !["t1.event"] = RegisterInner(@, 1, FALSE),
                   !["t1"] = Lapped(RegisterInner(@, FirstValue, FALSE))],
               <<NewEntry("t1.event", IdZero, UnitType, ""),
                 NewEntry("t1", IdZero, StoredType, "")>>)

\* register and the drop of a value Entry or of an observer Entry by the
\* threads, step by step; register_observer; guards taken on the Entries
\* and released
NextTracedCalls ==
    \/ \E t \in Threads : TracedRegisterInsert(t, "t1", FirstValue)
    \/ \E t \in Threads : TracedRegisterDispatch(t, "t1.event")
    \/ \E t \in Threads, h \in DOMAIN entries : DropLock(t, h)
    \/ \E t \in Threads : DropRemove(t)
    \/ \E t \in Threads : DropCallback(t)
    \/ \E t \in Threads : DropUnlock(t)
    \/ TracedRegisterObserver("t1", "t1.event")
    \/ \E h \in DOMAIN entries : EntryWrite(h)
    \/ \E h \in DOMAIN entries : EntryRead(h)
    \/ \E g \in BagToSet(guards) : GuardDrop(g)

SpecTracedCalls == InitTracedCalls /\ [][NextTracedCalls]_vars

\* the Entry guards a behaviour can hold
EntryGuards ==
    [kind : EntryGuardKinds, reg : {"t1", "t1.event"},
     entry : 1..(2 * MaxEntries + 1)]

\* a thread inside a call goes on when it can: a step that waits for a
\* lock is taken if the lock is free again and again, and every guard taken
\* is released
FairTracedCalls ==
    /\ \A t \in Threads :
          /\ SF_vars(TracedRegisterDispatch(t, "t1.event"))
          /\ WF_vars(DropRemove(t))
          /\ SF_vars(DropCallback(t))
          /\ WF_vars(DropUnlock(t))
    /\ \A g \in EntryGuards : WF_vars(GuardDrop(g))

SpecTracedCallsFair == SpecTracedCalls /\ FairTracedCalls

\* ---- StateMachine::run_args, one pass of its loop at a time
\* a pass that makes the transition and returns, as update_args does
run_args_pass_ReturnsAfterTransition(w, a) ==
    [world |-> update_args(w, a), returns |-> TRUE]

\* one pass of `while let Some(new_state) = State::on_update(..)`: the
\* on_update, and the transition of the body or the return
run_args_pass(w, a) ==
    LET updated == on_update(w, SomeArgs(a))
        new_state == on_update_returns(w)
    IN IF new_state # NoState
       THEN [world |-> transition(updated, new_state), returns |-> FALSE]
       ELSE [world |-> updated, returns |-> TRUE]

\* thread t is inside sm.run_args
Running(t) == threads[t].op = "run_args"

\* no thread has borrowed the StateMachine
NotRunning == \A t \in Threads : ~Running(t)

\* sm.run_args(&mut a), the call
RunArgsCall(t, a) ==
    /\ sm.live
    /\ NotRunning
    /\ threads[t] = Idle
    /\ threads' = [threads EXCEPT ![t] =
                     Frame("run_args", "while", "", 0, IdZero, "", a)]
    /\ UNCHANGED <<inner, rwlock, clones, entries, guards, cb_log, notified,
                   issued, bare, outcome>>
    /\ UNCHANGED machine

\* sm.run_args, one pass of the loop; the MOCK holds the calls of the pass
RunArgsPass(t) ==
    /\ Running(t)
    /\ LET pass == run_args_pass(World(sm, Taken), threads[t].value)
       IN /\ Leaves(pass.world)
          /\ IF pass.returns
             THEN /\ threads' = [threads EXCEPT ![t] = Idle]
                  /\ outcome' = Outcome("run_args", 0, "Ok", "", 0)
             ELSE UNCHANGED <<threads, outcome>>
    /\ UNCHANGED <<inner, rwlock, clones, entries, guards, cb_log, notified,
                   issued, bare>>

\* a StateMachine over `enum Test` that a thread runs while another sets
\* MOCK.b_transition
NextRunning ==
    \/ \E state \in MockStates, context \in MockContexts :
           NewContext(state, context)
    \/ \E new_state \in MockStates : NotRunning /\ Transition(new_state)
    \/ \E t \in Threads, a \in MockArgs : RunArgsCall(t, a)
    \/ \E t \in Threads : RunArgsPass(t)
    \/ \E state \in MockStates : MockBTransition(state)
    \/ NotRunning /\ DropMachine

\* a StateMachine over `enum Test`, in a program with no Registry
InitMachine ==
    /\ RegistriesStarted(EmptyMap, <<>>)
    /\ \E state \in MockStates, context \in MockContexts :
           LET made == [state |-> state, context |-> context, live |-> TRUE]
               w == on_enter(World(made, NoCalls), NoArgs)
           IN /\ sm = made
              /\ mock = [calls |-> w.calls, b_transition |-> w.b_transition]

NextMachine ==
    \/ \E state \in MockStates, context \in MockContexts :
           NewContext(state, context)
    \/ \E new_state \in MockStates : Transition(new_state)
    \/ \E new_state \in MockStates, a \in MockArgs :
           TransitionArgs(new_state, a)
    \/ \E a \in MockArgs : UpdateArgs(a)
    \/ \E a \in MockArgs : RunArgs(a)
    \/ \E context \in MockContexts : ContextMut(context)
    \/ \E state \in MockStates : MockBTransition(state)
    \/ DropMachine

SpecMachine == InitMachine /\ [][NextMachine]_vars

\* a StateMachine over an enum with A, B, C and EndState
NextEndState ==
    \/ \E state \in MockStates, context \in MockContexts :
           NewContext(state, context)
    \/ \E new_state \in StateEnumStates : Transition(new_state)
    \/ Update
    \/ Run
    \/ \E state \in StateEnumStates : MockBTransition(state)
    \/ DropMachine

SpecEndState == InitMachine /\ [][NextEndState]_vars

SpecRunning == InitMachine /\ [][NextRunning]_vars

\* a thread inside run_args goes on to the next pass of the loop
SpecRunningFair ==
    SpecRunning /\ \A t \in Threads : WF_vars(RunArgsPass(t))

\* ============================================================ claims
\* the step drops Entry h
Dropping(h) ==
    /\ h \in DOMAIN entries
    /\ entries[h].state = "held"
    /\ entries'[h].state = "dropped"

\* the step removed the slot of h and changed nothing else of its Inner:
\* the other pairs, next_id and the callback are as before
RemovedOnlySlotOf(h) ==
    LET r == entries[h].reg
        id == entries[h].id
    IN /\ id \in DOMAIN inner[r].map
       /\ inner'[r] = [inner[r] EXCEPT !.map = MapRemove(@, id)]
       /\ id \notin DOMAIN inner'[r].map

\* C1 as stated: dropping a held Entry while its Inner exists removes the
\* slot with its identifier and leaves every other pair and next_id alone.
C1_Original ==
    [][\A h \in DOMAIN entries :
          (Dropping(h) /\ Alive(entries[h].reg)) => RemovedOnlySlotOf(h)]_vars

\* ------------------------------------------------------------ C2
\* every Entry of registry r has been dropped, r still has a clone, and
\* every register call on r ran with a removal callback installed
AllDroppedWithCallback(r) ==
    /\ ~bare[r]
    /\ clones[r] > 0
    /\ entries # <<>>
    /\ \A h \in DOMAIN entries :
          entries[h].reg = r /\ entries[h].state = "dropped"

\* the registry is empty and the callback ran once per Entry, with its id
EmptyAndEachReported(r) ==
    /\ RegistryLen(r) = 0
    /\ Len(cb_log) = Len(entries)
    /\ \A h \in DOMAIN entries :
          Cardinality({k \in DOMAIN cb_log : cb_log[k][2] = entries[h].id}) = 1

\* a callback invocation happens only in the drop of an Entry, once, with
\* the Entry's identifier and the value the slot held at that moment
ReportsValueAtRemoval ==
    cb_log' # cb_log =>
        \E h \in DOMAIN entries :
            /\ Dropping(h)
            /\ entries[h].id \in DOMAIN inner[entries[h].reg].map
            /\ cb_log' = Append(cb_log,
                   <<inner[entries[h].reg].remove_callback.name,
                     entries[h].id,
                     inner[entries[h].reg].map[entries[h].id]>>)

\* C2 as stated: after N registrations on a Registry whose callback was
\* installed beforehand, dropping the N Entries in any order leaves
\* len() = 0 and N callback invocations, one per slot, each with the slot's
\* identifier and the value it held at removal.
C2_Original ==
    /\ [](AllDroppedWithCallback("r1") => EmptyAndEachReported("r1"))
    /\ [][ReportsValueAtRemoval]_vars

\* ------------------------------------------------------------ C3
\* C3 as stated: the identifiers returned by successive register calls on
\* one Inner are strictly increasing, so none is issued twice, whatever was
\* removed in between.
C3_Original ==
    \A r \in DOMAIN issued :
        \A i, j \in DOMAIN issued[r] :
            i < j => IdLess(issued[r][i], issued[r][j])

\* ------------------------------------------------------------ C4
EntryAccessOps == {"entry.read", "entry.write"}

\* the registry of the Entry the last call was made on
OutcomeReg == entries[outcome.arg].reg

\* no Registry clone and no Entry guard holds the Arc of r
NoStrongRef(r) ==
    /\ clones[r] = 0
    /\ \A g \in BagToSet(guards) : ~(g.reg = r /\ g.kind \in EntryGuardKinds)

\* read() / write() returned None exactly when the Inner no longer exists
AbsentIffGone ==
    outcome.op \in EntryAccessOps =>
        (outcome.tag = "None" <=> NoStrongRef(OutcomeReg))

\* once the Inner is gone it stays gone, and a read() / write() made then
\* returns None
GoneForever ==
    \A r \in DOMAIN clones :
        NoStrongRef(r) =>
            /\ NoStrongRef(r)'
            /\ (outcome'.op \in EntryAccessOps /\ OutcomeReg' = r)
                   => outcome'.tag = "None"

\* with the Inner gone, read() and write() of a held Entry do not wait
GoneNeverBlocks ==
    \A h \in DOMAIN entries :
        (entries[h].state = "held" /\ NoStrongRef(entries[h].reg))
            => (ENABLED EntryRead(h)) /\ (ENABLED EntryWrite(h))

\* C4 as stated: read() and write() return None if and only if the Inner
\* no longer exists; while a Registry clone exists they return a guard; once
\* they returned None they return None forever, never blocking or failing.
C4_Original ==
    /\ [](AbsentIffGone /\ GoneNeverBlocks)
    /\ [](outcome.op \in EntryAccessOps /\ clones[OutcomeReg] > 0
             => outcome.tag = "Some")
    /\ [][GoneForever]_vars

\* C4, amended: read() and write() return None if and only if the Inner no
\* longer exists; while a Registry clone exists and the RwLock is not
\* poisoned they return a guard, and when it is poisoned they panic; once
\* they returned None they return None forever, without blocking or failing.
C4_AbsentIffInnerGone ==
    /\ [](AbsentIffGone /\ GoneNeverBlocks)
    /\ [](outcome.op \in EntryAccessOps /\ clones[OutcomeReg] > 0
             => IF rwlock[OutcomeReg].poisoned
                THEN outcome.tag = "Panic" /\ outcome.msg = "PoisonError"
                ELSE outcome.tag = "Some")
    /\ [][GoneForever]_vars

\* C4 witness: read() or write() returned None on a held Entry after every
\* clone of its Registry was dropped
C4_Witness ==
    /\ outcome.op \in EntryAccessOps
    /\ outcome.tag = "None"
    /\ entries[outcome.arg].state = "held"
    /\ clones[OutcomeReg] = 0

\* ------------------------------------------------------------ C5
\* the step erases the typed Entry h
Erasing(h) ==
    /\ entries[h].state = "held"
    /\ entries[h].ty = StoredType
    /\ entries'[h].ty = UnitType

\* what the drop of h appends to cb_log: one record if a callback is set
DropReport(h) ==
    LET in == inner[entries[h].reg]
    IN IF in.remove_callback.kind = "Recorder"
       THEN << <<in.remove_callback.name, entries[h].id,
                 in.map[entries[h].id]>> >>
       ELSE <<>>

\* the erase removes nothing and calls nothing; the erased Entry stays held
EraseRemovesNothing(h) ==
    Erasing(h) =>
        /\ inner' = inner
        /\ cb_log' = cb_log
        /\ entries'[h].state = "held"

\* while the erased Entry is held and the Inner lives, its slot stays
ErasedSlotStays(h) ==
    (/\ entries[h].ty = UnitType
     /\ entries[h].state = "held" /\ entries'[h].state = "held"
     /\ Alive(entries[h].reg)')
        => (entries[h].id \in DOMAIN inner[entries[h].reg].map
               => entries[h].id \in DOMAIN inner'[entries[h].reg].map)

\* the drop of the erased Entry removes the slot and reports it once
ErasedDropRemoves(h) ==
    /\ RemovedOnlySlotOf(h)
    /\ cb_log' = cb_log \o DropReport(h)

\* C5 as stated: the erase removes nothing and invokes no callback, and the
\* slot is removed exactly once, when the erased Entry is dropped, with one
\* callback invocation (the Inner being alive).
C5_Original ==
    [][\A h \in DOMAIN entries :
          /\ EraseRemovesNothing(h)
          /\ ErasedSlotStays(h)
          /\ (Dropping(h) /\ entries[h].ty = UnitType
                 /\ Alive(entries[h].reg))
                => ErasedDropRemoves(h)]_vars

\* ------------------------------------------------------------ C10
GuardGetOps == {"guard.get", "guard.get_mut"}

\* the last call was get() / get_mut() through a guard of an erased Entry
ErasedGet ==
    /\ outcome.op \in GuardGetOps
    /\ entries[outcome.arg].ty = UnitType

\* C10 as stated: get() and get_mut() through a guard of an erased Entry
\* never return a reference: they panic with "Failed to downcast Entry",
\* and no value stored in the registry is changed by the call.
C10_Original ==
    /\ [](ErasedGet => /\ outcome.tag = "Panic"
                       /\ outcome.msg = "Failed to downcast Entry")
    /\ [][ErasedGet' =>
            \A id \in DOMAIN inner'[OutcomeReg'].map :
                /\ id \in DOMAIN inner[OutcomeReg'].map
                /\ inner'[OutcomeReg'].map[id] = inner[OutcomeReg'].map[id]]_vars

\* ------------------------------------------------------------ C6
\* the step is a call register(k, _) on RegistryMap r, which holds key k
DuplicateRegister(r) ==
    /\ outcome'.op = "map.register"
    /\ outcome'.key \in DOMAIN inner[r].map

\* the call changed nothing of the registry and ran no callback
NothingRegistered ==
    /\ inner' = inner
    /\ entries' = entries
    /\ issued' = issued
    /\ cb_log' = cb_log
    /\ notified' = notified

DuplicateKeyError ==
    /\ outcome'.tag = "Err"
    /\ outcome'.msg = "KeyAlreadyExists"

OwnerDropped(k) ==
    /\ \E h \in DOMAIN entries : entries[h].key = k
    /\ \A h \in DOMAIN entries :
          entries[h].key = k => entries[h].state = "dropped"

\* the step is a register(k, v) that returned a new handle for v under k
RegisteredUnder(r, k) ==
    /\ outcome'.tag = "Ok"
    /\ Len(entries') = Len(entries) + 1
    /\ k \in DOMAIN inner'[r].map
    /\ inner'[r].map[k] = outcome'.val

\* the handle the step returned has an identifier above all issued before
FreshGreaterId(r) ==
    /\ Len(entries') = Len(entries) + 1
    /\ \A i \in DOMAIN issued[r] :
          IdLess(issued[r][i], entries'[Len(entries')].id)

\* C7 as stated: once the handle that owns key k has been dropped, a
\* register(k, v) succeeds, stores v under k and returns a handle whose
\* identifier is greater than every identifier issued before.
C7_Original ==
    [][\A k \in Keys :
          (/\ OwnerDropped(k)
           /\ outcome'.op = "map.register"
           /\ outcome'.key = k)
          => RegisteredUnder("m1", k) /\ FreshGreaterId("m1")]_vars

\* ------------------------------------------------------------ C8
\* the observers registered in Event ev
RegisteredObservers(ev) == {inner[ev].map[i] : i \in DOMAIN inner[ev].map}

\* the observer invocations the step made
Delivered == Len(notified) + 1 .. Len(notified')

\* the step invoked observer o exactly once, with the event (kind, id,
\* value)
DeliveredOnce(o, kind, id, value) ==
    /\ Cardinality({i \in Delivered : notified'[i][1] = o}) = 1
    /\ \A i \in Delivered :
          notified'[i][1] = o => notified'[i][2] = <<kind, id, value>>

\* a register that returned delivered one Register event, with the
\* identifier of the new handle and the value, to every observer
RegisterDelivers(t, ev) ==
    (outcome'.op = "traced.register" /\ outcome'.tag = "Ok") =>
        /\ Len(entries') = Len(entries) + 1
        /\ \A o \in RegisteredObservers(ev) :
              DeliveredOnce(o, "Register", entries'[Len(entries')].id,
                            outcome'.val)

\* the drop of handle h delivered one UnRegister event, with the
\* identifier of h and the value of its slot, to every observer
DropDelivers(t, ev, h) ==
    \A o \in RegisteredObservers(ev) :
        /\ entries[h].id \in DOMAIN inner[t].map
        /\ DeliveredOnce(o, "UnRegister", entries[h].id,
                         inner[t].map[entries[h].id])

\* an observer that was registered before a slot and received the slot's
\* UnRegister event received its Register event earlier
RegisterBeforeUnRegister(t) ==
    \A i \in DOMAIN notified :
        notified[i][2][1] = "UnRegister" =>
            \A h \in DOMAIN entries :
                (/\ entries[h].reg = t
                 /\ entries[h].id = notified[i][2][2]
                 /\ notified[i][1] < h)
                => \E j \in 1..(i - 1) :
                      /\ notified[j][1] = notified[i][1]
                      /\ notified[j][2][1] = "Register"
                      /\ notified[j][2][2] = notified[i][2][2]

\* C8 as stated: registering v delivers one Register event with the
\* identifier and v to every observer, dropping the handle delivers one
\* UnRegister event with the identifier and the slot's value, and the
\* Register event of a slot comes before its UnRegister event.
C8_Original ==
    /\ [][RegisterDelivers("t1", "t1.event")]_vars
    /\ [][\A h \in DOMAIN entries :
             (Dropping(h) /\ entries[h].reg = "t1")
             => DropDelivers("t1", "t1.event", h)]_vars
    /\ []RegisterBeforeUnRegister("t1")

\* ------------------------------------------------------------ C9
\* the observers of Event e whose handles have not been dropped, in the
\* order of their registration
RECURSIVE LiveObservers(_, _)
LiveObservers(e, n) ==
    IF n = 0 THEN <<>>
    ELSE IF entries[n].reg = e /\ entries[n].state # "dropped"
    THEN Append(LiveObservers(e, n - 1), n)
    ELSE LiveObservers(e, n - 1)

\* C9 as stated: a dispatch invokes the observers whose handles are live,
\* each once, in registration order, and no observer whose handle was
\* dropped before.
C9_Original ==
    [][(outcome'.op = "dispatch" /\ outcome'.tag = "Ok") =>
          notified' = notified \o
              [i \in 1..Len(LiveObservers("e1", Len(entries))) |->
                  <<LiveObservers("e1", Len(entries))[i], outcome'.val>>]]_vars

\* ------------------------------------------------------------ C11
\* a thread inside register on r holds the write lock alone: no reader, and
\* no other thread inside a call on r
OneExclusiveSection(r) ==
    \A t \in Threads :
        (threads[t].op = "register" /\ threads[t].reg = r) =>
            /\ rwlock[r].writer
            /\ rwlock[r].readers = 0
            /\ \A u \in Threads \ {t} : threads[u].reg # r

\* issued[r] lists the identifiers in the order in which the register calls
\* left their exclusive sections: an earlier one is lower
EarlierSectionLowerId(r) ==
    \A i, j \in DOMAIN issued[r] :
        i < j => IdLess(issued[r][i], issued[r][j])

\* C11 as stated: two register calls on the same Inner, made by two
\* threads, never receive the same identifier, the call whose exclusive
\* section completes first receives the lower one, and the identifier is
\* read and the value inserted in one exclusive section.
C11_Original ==
    /\ OneExclusiveSection("r1")
    /\ EarlierSectionLowerId("r1")

\* ------------------------------------------------------------ C12
\* thread t is in the drop of an Entry, has removed the slot, and the
\* callback has not returned yet
InRemoval(t) == threads[t].op = "drop" /\ threads[t].pc = "removed"

\* nobody but the thread inside a call on r has access to r: the thread
\* holds the write lock, no view or guard on r is held, and no other thread
\* is inside a call on r
SoleAccess(t, r) ==
    /\ rwlock[r].writer
    /\ rwlock[r].readers = 0
    /\ \A g \in BagToSet(guards) : g.reg # r
    /\ \A u \in Threads \ {t} : threads[u].reg # r

\* no call that takes the lock of r can go on: views, Entry guards,
\* register calls and other drops wait
EveryAcquisitionWaits(r) ==
    /\ ~ENABLED RegistryRead(r)
    /\ ~ENABLED RegistryWrite(r)
    /\ \A h \in DOMAIN entries :
          (entries[h].reg = r /\ entries[h].state = "held") =>
              /\ ~ENABLED EntryRead(h)
              /\ ~ENABLED EntryWrite(h)
              /\ \A u \in Threads : ~ENABLED DropLock(u, h)
    /\ \A u \in Threads, v \in Values : ~ENABLED RegisterLock(u, r, v)

\* the removal ends with the callback's return: the callback has run, once,
\* with the identifier and the removed value, on the thread that still
\* holds the write lock, and the slot is absent
CallbackReturns(t) ==
    LET r == threads[t].reg
    IN /\ threads'[t] = [threads[t] EXCEPT !.pc = "finished"]
       /\ rwlock'[r].writer
       /\ threads[t].id \notin DOMAIN inner'[r].map
       /\ cb_log' = IF inner[r].remove_callback.kind = "Recorder"
                    THEN Append(cb_log, <<inner[r].remove_callback.name,
                                          threads[t].id, threads[t].value>>)
                    ELSE cb_log

\* the dropping thread gives the write lock back only after the callback
\* returned (or when there was no slot to remove), with the slot absent
ReleasedAfterCallback(t) ==
    LET r == threads[t].reg
    IN (threads[t].op = "drop" /\ rwlock[r].writer /\ ~rwlock'[r].writer) =>
          /\ threads[t].pc = "finished"
          /\ threads[t].id \notin DOMAIN inner'[r].map

\* C12: the removal callback runs on the dropping thread while it holds the
\* registry's write lock: from the slot's removal to the callback's return
\* no other thread holds or obtains a view or guard, and the lock is
\* released only after the callback returned, with the slot absent, so
\* whoever acquires access later sees the slot absent and the callback
\* completed.
C12_CallbackUnderWriteLock ==
    /\ [](\A t \in Threads :
             InRemoval(t) => /\ SoleAccess(t, threads[t].reg)
                             /\ EveryAcquisitionWaits(threads[t].reg))
    /\ [][\A t \in Threads :
             /\ (InRemoval(t) /\ ~InRemoval(t)') => CallbackReturns(t)
             /\ ReleasedAfterCallback(t)]_vars

\* C12 witness: a thread's removal callback has returned, the thread still
\* holds the write lock, and the other thread holds an Entry of the same
\* registry that it cannot access yet
C12_Witness ==
    \E t \in Threads :
        /\ threads[t].op = "drop"
        /\ threads[t].pc = "finished"
        /\ rwlock[threads[t].reg].writer
        /\ cb_log # <<>>
        /\ cb_log[Len(cb_log)][2] = threads[t].id
        /\ threads[t].id \notin DOMAIN inner[threads[t].reg].map
        /\ \E h \in DOMAIN entries :
              /\ entries[h].state = "held"
              /\ entries[h].reg = threads[t].reg
              /\ ~ENABLED EntryRead(h)

\* ------------------------------------------------------------ C13
\* a dispatch on Event e is in progress: a thread holds the read lock of
\* its loop
Dispatching(e) ==
    \E t \in Threads : threads[t].op = "dispatch" /\ threads[t].reg = e

\* register_observer on e and the drop of every held observer handle of e
\* wait
ObserverChangesWait(e) ==
    /\ ~ENABLED RegisterObserver(e)
    /\ \A h \in DOMAIN entries :
          (entries[h].reg = e /\ entries[h].state = "held") =>
              ~ENABLED DropEntry(h)

\* C13: while a dispatch is in progress on an Event, a register_observer
\* call and the drop of an observer handle on that Event by another thread
\* wait for the dispatch to release its read lock, and no step changes the
\* observer set.
C13_DispatchBlocksObserverChanges ==
    /\ [](Dispatching("e1") => ObserverChangesWait("e1"))
    /\ [][Dispatching("e1") => inner'["e1"] = inner["e1"]]_vars

\* C13 witness: a dispatch has notified the first of two observers and
\* not yet the second, while the handle of an observer is held and its
\* drop waits
C13_Witness ==
    \E t \in Threads :
        /\ threads[t].op = "dispatch"
        /\ threads[t].reg = "e1"
        /\ threads[t].entry = 1
        /\ Cardinality(DOMAIN inner["e1"].map) = 2
        /\ \E h \in DOMAIN entries :
              /\ entries[h].reg = "e1"
              /\ entries[h].state = "held"
              /\ ~ENABLED DropEntry(h)

\* ------------------------------------------------------------ C14
\* C14 as stated: for any two values registered in one TracedRegistry,
\* also by concurrent threads, every observer receives the Register event
\* of the lower identifier before that of the higher one.
C14_Original ==
    \A a, b \in DOMAIN notified :
        (/\ a < b
         /\ notified[a][1] = notified[b][1]
         /\ notified[a][2][1] = "Register"
         /\ notified[b][2][1] = "Register")
        => ~IdLess(notified[b][2][2], notified[a][2][2])

\* ------------------------------------------------------------ C15
\* entry_map and map of a RegistryMap's Inner agree: every identifier of
\* entry_map maps to a key of map, and every key of map is the image of
\* exactly one identifier
MapsAgree(in) ==
    /\ \A i \in DOMAIN in.entry_map : in.entry_map[i] \in DOMAIN in.map
    /\ \A k \in DOMAIN in.map :
          Cardinality({i \in DOMAIN in.entry_map : in.entry_map[i] = k}) = 1

\* a thread holds a read or write view of r, or the removal callback of r
\* is about to run or running
Observed(r) ==
    \/ \E g \in BagToSet(guards) : g.reg = r /\ g.kind \in ViewKinds
    \/ \E t \in Threads : InRemoval(t) /\ threads[t].reg = r

\* C15 as stated: in every state a thread observes through a read or write
\* view of a RegistryMap, and during the removal callback, entry_map and map
\* agree, and no removal is seen half done.
C15_Original == Observed("m1") => MapsAgree(inner["m1"])

\* ------------------------------------------------------------ C16
\* C16 as stated: in every reachable state of a Registry's Inner every
\* identifier of the map is below next_id (the keys lie in [0, next_id)),
\* and next_id of a new Registry is 0.
C16_Original ==
    /\ NewInner(IdZero, StoredType).next_id = IdZero
    /\ \A i \in DOMAIN inner["r1"].map : IdLess(i, inner["r1"].next_id)

\* ------------------------------------------------------------ C17
\* the Entries registry r returned that have not been dropped
Undropped(r) ==
    {h \in DOMAIN entries : entries[h].reg = r /\ entries[h].state # "dropped"}

\* a read view of r is held
ReadViewHeld(r) ==
    \E g \in BagToSet(guards) : g.reg = r /\ g.kind = "RegistryReadGuard"

\* the map holds exactly the identifiers of the undropped Entries, one slot
\* for each
SlotPerUndropped(r) ==
    /\ DOMAIN inner[r].map = {entries[h].id : h \in Undropped(r)}
    /\ Cardinality(DOMAIN inner[r].map) = Cardinality(Undropped(r))

\* the step is an iteration that yielded the identifiers of the undropped
\* Entries in ascending order
IteratesUndropped(r) ==
    outcome'.op = "view.iter" =>
        /\ {outcome'.val[i][1] : i \in DOMAIN outcome'.val}
              = {entries[h].id : h \in Undropped(r)}
        /\ Len(outcome'.val) = Cardinality(Undropped(r))
        /\ \A i, j \in DOMAIN outcome'.val :
              i < j => IdLess(outcome'.val[i][1], outcome'.val[j][1])

\* the step is a len() that returned the number of undropped Entries, or
\* an is_empty() that returned whether there is none
CountsUndropped(r) ==
    /\ (outcome'.op = "len" /\ outcome'.tag = "Ok")
          => outcome'.val = Cardinality(Undropped(r))
    /\ (outcome'.op = "is_empty" /\ outcome'.tag # "Panic")
          => (outcome'.tag = "True" <=> Undropped(r) = {})

\* C17 as stated: in every state observable through a read view the map of
\* a Registry holds exactly the identifiers of the Entries it returned that
\* have not been dropped, iteration yields them in ascending order, len()
\* is their number and is_empty() holds exactly when there is none.
C17_Original ==
    /\ [](ReadViewHeld("r1") => SlotPerUndropped("r1"))
    /\ [][IteratesUndropped("r1") /\ CountsUndropped("r1")]_vars

\* ------------------------------------------------------------ C18
\* the calls that store through a `&mut T`, and the identifier of the slot
\* the last one stored to
StoreOps == {"guard.get_mut", "view.get_mut", "view.iter_mut"}

StoredId ==
    IF outcome'.op = "guard.get_mut" THEN entries[outcome'.arg].id
    ELSE outcome'.key

\* the step stored a value
Storing == outcome'.op \in StoreOps /\ outcome'.tag \in {"Ref", "Some"}

\* the store changed the value of slot StoredId to the value written and
\* nothing else of the Inner: the other values, the key set, next_id and
\* the callback are as before
StoresOnlyAt(r) ==
    /\ StoredId \in DOMAIN inner[r].map
    /\ inner'[r].map[StoredId] = outcome'.val
    /\ DOMAIN inner'[r].map = DOMAIN inner[r].map
    /\ \A i \in DOMAIN inner[r].map \ {StoredId} :
          inner'[r].map[i] = inner[r].map[i]
    /\ inner'[r].next_id = inner[r].next_id
    /\ inner'[r].remove_callback = inner[r].remove_callback

\* a read returns what the slot holds: a get() through an Entry guard, a
\* get() through a view, and every pair of an iteration
ReadsStored(r) ==
    /\ (outcome'.op = "guard.get" /\ outcome'.tag = "Ref")
          => outcome'.val = inner[r].map[entries[outcome'.arg].id]
    /\ (outcome'.op = "view.get" /\ outcome'.tag = "Some")
          => outcome'.val = inner[r].map[outcome'.key]
    /\ outcome'.op = "view.iter"
          => \A i \in DOMAIN outcome'.val :
                outcome'.val[i][2] = inner[r].map[outcome'.val[i][1]]

Installing == outcome'.op = "set_remove_callback" /\ outcome'.tag = "Ok"

\* a set_remove_callback(c) leaves c as the one callback of the Inner, and
\* nothing else changes the callback while the Inner exists
OneCallbackInEffect(r) ==
    /\ Installing =>
          /\ inner'[r].remove_callback.kind = "Recorder"
          /\ inner'[r].remove_callback.name = outcome'.key
    /\ (inner'[r].remove_callback # inner[r].remove_callback)
          => Installing \/ ~Alive(r)'

\* the drop of h removes its slot
Removing(h) ==
    /\ Dropping(h)
    /\ entries[h].id \in DOMAIN inner[entries[h].reg].map
    /\ entries[h].id \notin DOMAIN inner'[entries[h].reg].map

\* a removal invokes the callback in effect once, with the identifier and
\* the value, and no other callback; nothing else invokes a callback
RemovalInvokesCurrent(r) ==
    /\ \A h \in DOMAIN entries :
          (Removing(h) /\ entries[h].reg = r) =>
              cb_log' = IF inner[r].remove_callback.kind = "Recorder"
                        THEN Append(cb_log,
                                 <<inner[r].remove_callback.name,
                                   entries[h].id,
                                   inner[r].map[entries[h].id]>>)
                        ELSE cb_log
    /\ cb_log' # cb_log => \E h \in DOMAIN entries : Removing(h)

\* C19: at most one removal callback is in effect per Inner: after
\* set_remove_callback(c2) replaced c1, every removal invokes c2 exactly
\* once and c1 is never invoked again.
C19_ReplacedCallbackNeverRuns ==
    [][OneCallbackInEffect("r1") /\ RemovalInvokesCurrent("r1")]_vars

\* C19 witness: a removal was reported to c1, then c2 replaced c1 and the
\* next removal was reported to c2
C19_Witness ==
    /\ Len(cb_log) = 2
    /\ cb_log[1][1] = "c1"
    /\ cb_log[2][1] = "c2"
    /\ inner["r1"].remove_callback.name = "c2"

\* ------------------------------------------------------------ C20
\* the drop changed no Inner and no lock, invoked no callback and no
\* observer, and returned
DropDidNothing ==
    /\ inner' = inner
    /\ rwlock' = rwlock
    /\ cb_log' = cb_log
    /\ notified' = notified
    /\ outcome' = Returned

\* C20: dropping an Entry after its Inner was destroyed does nothing: it
\* does not wait or fail, invokes no callback and changes no registry,
\* also not one that issued the same identifier.
C20_DropAfterDestructionIsNoOp ==
    /\ [][\A h \in DOMAIN entries :
             (Dropping(h) /\ NoStrongRef(entries[h].reg)) => DropDidNothing]_vars
    /\ [](\A h \in DOMAIN entries :
             (entries[h].state = "held" /\ NoStrongRef(entries[h].reg))
                => ENABLED DropEntry(h))

\* C20 witness: an Entry of r1, registered under a callback, was dropped
\* after r1 was destroyed (no callback ran), and r2 still holds a slot with
\* the Entry's identifier
C20_Witness ==
    \E h \in DOMAIN entries :
        /\ entries[h].reg = "r1"
        /\ entries[h].state = "dropped"
        /\ clones["r1"] = 0
        /\ ~bare["r1"]
        /\ ~rwlock["r1"].poisoned
        /\ cb_log = <<>>
        /\ clones["r2"] > 0
        /\ entries[h].id \in DOMAIN inner["r2"].map

\* ------------------------------------------------------------ C21
\* every Entry that still has an owner, and whose Inner exists, has its slot
SlotWhileOwned ==
    \A h \in DOMAIN entries :
        (entries[h].state = "held" /\ Alive(entries[h].reg))
        => entries[h].id \in DOMAIN inner[entries[h].reg].map

\* the step drops an owner of Entry h that is not the last one
DroppingOwner(h) ==
    /\ h \in DOMAIN entries
    /\ entries[h].state = "held"
    /\ entries'[h].state = "held"
    /\ entries'[h].owners < entries[h].owners

\* C21 as stated: the slot of an Entry shared through several Arc owners
\* stays registered while an owner remains, and is removed exactly when
\* the last owner is dropped.
C21_Original ==
    /\ []SlotWhileOwned
    /\ [][\A h \in DOMAIN entries :
             /\ DroppingOwner(h) => inner' = inner
             /\ (Dropping(h) /\ Alive(entries[h].reg))
                => entries[h].id \notin DOMAIN inner'[entries[h].reg].map]_vars

\* ------------------------------------------------------------ C22
\* the step left every registry but r as it was: Inner and lock
OthersUntouched(r) ==
    \A x \in DOMAIN inner \ {r} :
        /\ inner'[x] = inner[x]
        /\ rwlock'[x] = rwlock[x]

\* the step changed of the Inner of r at most the slot with identifier id,
\* which it removed
RemovedAtMost(r, id) ==
    \/ inner'[r] = inner[r]
    \/ /\ id \in DOMAIN inner[r].map
       /\ inner'[r] = [inner[r] EXCEPT !.map = MapRemove(@, id)]

\* C22: dropping an erased Entry removes a slot only from the registry
\* that issued it, the slot with its identifier; every other registry is
\* left unchanged, also one that holds a slot with the same identifier.
C22_ErasedDropTouchesOnlyIssuer ==
    [][\A h \in DOMAIN entries :
          (Dropping(h) /\ entries[h].ty = UnitType) =>
              /\ OthersUntouched(entries[h].reg)
              /\ RemovedAtMost(entries[h].reg, entries[h].id)]_vars

\* two erased Entries with the same identifier, issued by two registries:
\* one was dropped and its slot is gone, the slot of the other is there
C22_Witness ==
    \E h1, h2 \in DOMAIN entries :
        /\ entries[h1].reg # entries[h2].reg
        /\ entries[h1].id = entries[h2].id
        /\ entries[h1].ty = UnitType /\ entries[h2].ty = UnitType
        /\ entries[h1].state = "dropped" /\ entries[h2].state = "held"
        /\ Alive(entries[h1].reg)
        /\ entries[h1].id \notin DOMAIN inner[entries[h1].reg].map
        /\ entries[h2].id \in DOMAIN inner[entries[h2].reg].map

\* ------------------------------------------------------------ C23
\* the step is a register on r whose Entry was dropped at once
RegisteredAndDropped(r) ==
    /\ outcome'.op = "register.dropped"
    /\ outcome'.tag = "Ok"
    /\ entries'[Len(entries')].reg = r

\* the counter of r went up by one
CounterAdvanced(r) ==
    /\ inner'[r].next_id = IdWrappingSucc(inner[r].next_id)
    /\ IdLess(inner[r].next_id, inner'[r].next_id)

\* the callback of r, if one is installed, was invoked once, with the
\* identifier the call consumed and the value; nothing else was invoked
InvokedOnceWithConsumed(r) ==
    cb_log' = cb_log \o
        (IF inner[r].remove_callback.kind = "Recorder"
         THEN << <<inner[r].remove_callback.name, inner[r].next_id,
                   outcome'.val>> >>
         ELSE <<>>)

\* C23 as stated: a register call whose Entry is dropped immediately
\* leaves the mapping as it was before the call, next_id advanced by one,
\* and the callback, if installed, invoked once with the consumed
\* identifier and the value.
C23_Original ==
    [][RegisteredAndDropped("r1") =>
          /\ inner'["r1"].map = inner["r1"].map
          /\ CounterAdvanced("r1")
          /\ InvokedOnceWithConsumed("r1")]_vars

\* ------------------------------------------------------------ C24
WriteKinds == {"RegistryWriteGuard", "EntryWriteGuard"}
ReadKinds == {"RegistryReadGuard", "EntryReadGuard"}

\* the views and Entry guards of the given kinds held on the Inner of r
HeldOn(r, kinds) == GuardCountIn(guards, r, kinds)

\* while a write view or an Entry write guard is held on r it is the only
\* view or guard on r
WriterExcludesAll(r) ==
    HeldOn(r, WriteKinds) > 0 => HeldOn(r, WriteKinds \cup ReadKinds) = 1

\* views and Entry guards are holders of the one RwLock of r
OneLock(r) ==
    /\ rwlock[r].writer = (HeldOn(r, WriteKinds) = 1)
    /\ rwlock[r].readers = HeldOn(r, ReadKinds)

\* C24: views and Entry guards take the same lock of the Inner: while a
\* write view or an Entry write guard is held, no other read view, write
\* view, read guard or write guard is held on that Inner; read views and
\* read guards may be held together.
C24_WriterExcludesEveryHolder ==
    \A r \in DOMAIN inner : WriterExcludesAll(r) /\ OneLock(r)

\* a read view and an Entry read guard are held together
C24_Witness ==
    /\ HeldOn("r1", {"RegistryReadGuard"}) = 1
    /\ HeldOn("r1", {"EntryReadGuard"}) = 1
    /\ rwlock["r1"].readers = 2

\* ------------------------------------------------------------ C25
\* thread t can call dispatch on Event e: it is in no call and the Event
\* value exists (and the run has not reached its notification bound)
CanCallDispatch(t, e) ==
    /\ threads[t] = Idle
    /\ clones[e] > 0
    /\ Len(notified) < MaxNotified

\* a dispatch called by t would proceed at once
DispatchProceeds(t, e) ==
    \E a \in EventArgs : ENABLED DispatchLock(t, e, a)

\* an exclusive-mode operation on e is in progress: a thread holds the
\* write lock
ExclusiveInProgress(e) == rwlock[e].writer

\* C25: a dispatch waits exactly while an exclusive-mode operation
\* (register_observer, the drop of an observer Entry) holds the Event's
\* lock; it never waits for another dispatch, so two dispatches by
\* different threads can be in progress together.
C25_DispatchWaitsOnlyForWriters ==
    \A t \in Threads :
        CanCallDispatch(t, "e1") =>
            (DispatchProceeds(t, "e1") <=> ~ExclusiveInProgress("e1"))

\* both threads are inside dispatch, one of them past its first observer
C25_Witness ==
    /\ threads["A"].op = "dispatch"
    /\ threads["B"].op = "dispatch"
    /\ threads["A"].entry > 0
    /\ NextObserver("B") # <<>>
    /\ rwlock["e1"].readers = 2

\* ------------------------------------------------------------ C26
\* the Entries on which leak() was called
Leaked(r) ==
    {h \in DOMAIN entries : entries[h].reg = r /\ entries[h].state = "leaked"}

\* while the Inner exists, every leaked Entry has its slot
LeakedSlotStays(r) ==
    Alive(r) => \A h \in Leaked(r) : entries[h].id \in DOMAIN inner[r].map

\* the step invoked no callback with the identifier of a leaked Entry
NoCallbackForLeaked(r) ==
    \A h \in Leaked(r) :
        \A i \in (Len(cb_log) + 1)..Len(cb_log') :
            cb_log'[i][2] # entries[h].id

\* a len() the step made counted the leaked Entries, and an iteration over
\* a view yielded them
LeakedCountedAndIterated(r) ==
    /\ (outcome'.op = "len" /\ outcome'.tag = "Ok") =>
           outcome'.val >= Cardinality({entries[h].id : h \in Leaked(r)})
    /\ (outcome'.op = "view.iter") =>
           \A h \in Leaked(r) :
               \E i \in DOMAIN outcome'.val :
                   outcome'.val[i][1] = entries[h].id

\* C26 as stated: after leak() the slot of the Entry is never removed
\* while the Inner exists, the callback is never invoked for it, and
\* len() and the iteration over a read view keep counting and yielding it.
C26_Original ==
    /\ []LeakedSlotStays("r1")
    /\ [][NoCallbackForLeaked("r1") /\ LeakedCountedAndIterated("r1")]_vars

\* ---- C27
\* C27: sm.transition(new) calls on_leave on the current state, then
\* Machine::on_transition with the new state, then installs the new state and
\* calls on_enter on it, each exactly once and in this order; on_leave and
\* on_enter receive no args and on_update is not called.
C27_TransitionCallsInOrder ==
    [][\A new_state \in MockStates :
           Transition(new_state) =>
               /\ mock'.calls =
                      << MockCall(sm.state, "OnLeave", NoArgs, sm.context),
                         TransitionCall(sm.state, new_state, sm.context),
                         MockCall(new_state, "OnEnter", NoArgs, sm.context) >>
               /\ sm'.state = new_state
               /\ sm'.live]_vars

\* a transition(new) from one state to another has just returned
C27_Witness ==
    /\ sm.live
    /\ Len(mock.calls) = 3
    /\ mock.calls[1].call = "OnLeave" /\ ~mock.calls[1].args.some
    /\ mock.calls[2].call = "OnTransition"
    /\ mock.calls[2].new_state = sm.state
    /\ mock.calls[3].call = "OnEnter" /\ ~mock.calls[3].args.some
    /\ mock.calls[3].state = sm.state
    /\ mock.calls[1].state # sm.state

\* ---- C28
\* what on_update of the current state is about to return
UpdateReturns == on_update_returns(World(sm, mock))

\* C28: sm.update_args(args) calls on_update on the current state exactly
\* once, with the args. If it returns no state, the state is unchanged and
\* neither on_leave nor on_enter is called; if it returns a state, exactly one
\* transition to it is made, in which on_leave and on_enter receive the same
\* args, and on_update of the new state is not called within the call.
C28_UpdateArgsUpdatesOnce ==
    [][\A a \in MockArgs :
           UpdateArgs(a) =>
               IF UpdateReturns = NoState
               THEN /\ mock'.calls =
                           << MockCall(sm.state, "OnUpdate", SomeArgs(a),
                                       sm.context) >>
                    /\ sm'.state = sm.state
               ELSE /\ mock'.calls =
                           << MockCall(sm.state, "OnUpdate", SomeArgs(a),
                                       sm.context),
                              MockCall(sm.state, "OnLeave", SomeArgs(a),
                                       sm.context),
                              TransitionCall(sm.state, UpdateReturns,
                                             sm.context),
                              MockCall(UpdateReturns, "OnEnter", SomeArgs(a),
                                       sm.context) >>
                    /\ sm'.state = UpdateReturns]_vars

\* an update_args whose on_update returned another state has just returned
C28_Witness ==
    /\ sm.live
    /\ Len(mock.calls) = 4
    /\ mock.calls[1].call = "OnUpdate" /\ mock.calls[1].args.some
    /\ mock.calls[2].call = "OnLeave"
    /\ mock.calls[2].args = mock.calls[1].args
    /\ mock.calls[4].call = "OnEnter"
    /\ mock.calls[4].args = mock.calls[1].args
    /\ mock.calls[4].state = sm.state
    /\ mock.calls[1].state # sm.state

\* ---- C29
\* a thread holds an Entry guard on r, whole or with its lock guard still
\* to drop
EntryGuardHeld(r) ==
    \/ \E g \in BagToSet(guards) : g.reg = r /\ g.kind \in EntryGuardKinds
    \/ \E t \in Threads :
           threads[t].op = "guard.drop" /\ threads[t].reg = r

\* C29 as stated: while a thread holds a read or write guard obtained
\* through an Entry, the Inner it locks has not been destroyed; when the
\* guard's Arc is the last one, dropping the guard releases the lock before
\* the Inner and its values are destroyed.
C29_Original ==
    \A r \in DOMAIN inner : EntryGuardHeld(r) => Alive(r)

\* ---- C30
\* C30 as stated: in a RegistryMap, whatever registers, registers of a key
\* in use, erasures, Entry drops and clones and drops of the RegistryMap
\* came before, an Entry dropped while the Inner exists finds its
\* identifier in entry_map, so the drop never reaches `Failed to find key
\* for EntryId during removal!` and never panics.
C30_Original ==
    [][\A h \in DOMAIN entries :
          (Dropping(h) /\ Alive(entries[h].reg)) =>
              /\ entries[h].id \in DOMAIN inner[entries[h].reg].entry_map
              /\ outcome'.tag # "Panic"]_vars

\* ---- C31
\* C31 as stated: get() and get_mut() through a guard obtained from a live
\* Entry of the stored type always find the Entry's slot: they never fail
\* with `Entry not found in the Registry`, whatever registers, drops,
\* erasures and stores came before.
C31_Original ==
    [][(/\ outcome'.op \in {"guard.get", "guard.get_mut"}
        /\ entries[outcome'.arg].state = "held"
        /\ entries[outcome'.arg].ty = inner[entries[outcome'.arg].reg].elem)
       => outcome'.msg # "Entry not found in the Registry"]_vars

\* ---- C32
\* the callback records and the notifications the step added
NewRecords == SubSeq(cb_log', Len(cb_log) + 1, Len(cb_log'))
NewNotified == SubSeq(notified', Len(notified) + 1, Len(notified'))
NewUnRegister == SelectSeq(NewNotified, LAMBDA n : n[2][1] = "UnRegister")

\* the step invoked no removal callback and published no UnRegister
NothingPublished == NewRecords = <<>> /\ NewUnRegister = <<>>

\* the step destroys the Inner of r
Destroying(r) == StrongCount(r) > 0 /\ StrongCount(r)' = 0

\* the step drops Entry h, and what it invoked and published is for the
\* identifier of h: at most one callback, at most one UnRegister for each
\* observer
PublishedByDropOf(h) ==
    /\ Dropping(h)
    /\ StrongCount(entries[h].reg) > 0
    /\ Len(NewRecords) <= 1
    /\ \A i \in DOMAIN NewRecords : NewRecords[i][2] = entries[h].id
    /\ \A i \in DOMAIN NewUnRegister :
          /\ NewUnRegister[i][2][2] = entries[h].id
          /\ \A j \in DOMAIN NewUnRegister :
                NewUnRegister[j][1] = NewUnRegister[i][1] => j = i

\* C32: when the Inner of a Registry or TracedRegistry is destroyed while
\* slots are present, the removal callback is not invoked for them and no
\* UnRegister is published for them, neither at the destruction nor when
\* their Entries are dropped later; a callback runs, and an UnRegister is
\* published, only through the drop of an Entry, at most once for each.
C32_DestructionPublishesNothing ==
    [][/\ \A r \in {"r1", "t1"} : Destroying(r) => NothingPublished
       /\ \A h \in DOMAIN entries :
             (Dropping(h) /\ StrongCount(entries[h].reg) = 0)
                => NothingPublished
       /\ ~NothingPublished => \E h \in DOMAIN entries : PublishedByDropOf(h)]_vars

\* the TracedRegistry was dropped while it held a slot whose Register an
\* observer had received; the Entry of the slot was dropped afterwards and
\* nothing more was published
C32_Witness ==
    \E h \in DOMAIN entries :
        /\ entries[h].reg = "t1"
        /\ entries[h].state = "dropped"
        /\ clones["t1"] = 0
        /\ Len(notified) = 1
        /\ notified[1][2][1] = "Register"
        /\ notified[1][2][2] = entries[h].id

\* ---- C33
\* the step is a get() or get_mut() through the write guard of an Entry of
\* r that failed, and the failure unwound through the guard
WriteGuardFailure(r) ==
    /\ outcome'.op \in {"guard.get", "guard.get_mut"}
    /\ outcome'.tag = "Panic"
    /\ LET g == [kind |-> "EntryWriteGuard", reg |-> r,
                 entry |-> outcome'.arg]
       IN /\ g \in BagToSet(guards)
          /\ guards' = guards (-) SetToBag({g})

\* the drop of an Entry of r through the poisoned lock removes nothing,
\* invokes no callback and returns
PoisonedDropDoesNothing(r) ==
    \A h \in DOMAIN entries :
        (Dropping(h) /\ entries[h].reg = r /\ rwlock[r].poisoned) =>
            /\ inner' = inner
            /\ rwlock' = rwlock
            /\ cb_log' = cb_log
            /\ notified' = notified
            /\ outcome' = Returned

\* C33: a failure raised while a thread holds the write guard of an Entry
\* (the type mismatch of write().get() on an erased Entry, for one) leaves
\* the lock of the Inner poisoned; from then on the lock stays poisoned and
\* the drop of any Entry of that registry removes nothing and invokes no
\* callback, without failing, so the slots stay in the mapping.
C33_PoisonedDropsRemoveNothing ==
    [][/\ (WriteGuardFailure("r1") /\ StrongCount("r1")' > 0)
             => rwlock'["r1"].poisoned
       /\ rwlock["r1"].poisoned => rwlock'["r1"].poisoned
       /\ PoisonedDropDoesNothing("r1")]_vars

\* an erased Entry was dropped through the lock a failed write().get()
\* poisoned: its slot is in the mapping and the callback was not invoked
C33_Witness ==
    \E h \in DOMAIN entries :
        /\ entries[h].ty = UnitType
        /\ entries[h].state = "dropped"
        /\ rwlock["r1"].poisoned
        /\ clones["r1"] > 0
        /\ inner["r1"].next_id = <<0, 1>>
        /\ Len(entries) = 2
        /\ entries[h].id \in DOMAIN inner["r1"].map
        /\ inner["r1"].remove_callback.kind = "Recorder"
        /\ cb_log = <<>>

\* ---- C34
\* the held Entries of r
HeldIds(r) ==
    {entries[h].id : h \in {x \in DOMAIN entries :
                               entries[x].reg = r /\ entries[x].state = "held"}}

\* C34 as stated: the 32-bit identifier counter never wraps around: after
\* the identifier 2^32 - 1 was issued no later register issues identifier 0
\* again, and no register overwrites a slot whose Entry is held.
C34_Original ==
    /\ [](\A i, j \in DOMAIN issued["r1"] :
             (i < j /\ issued["r1"][i] = IdMax) => issued["r1"][j] # IdZero)
    /\ [][(outcome'.op = "register" /\ outcome'.tag = "Ok")
             => inner["r1"].next_id \notin HeldIds("r1")]_vars

\* ---- C35
\* thread t is inside a call
InCall(t) == threads[t] # Idle

\* a thread inside a call can take its next step, or a guard that is held
\* can be released
CanGoOn ==
    \/ \E t \in Threads :
           \/ ENABLED TracedRegisterDispatch(t, "t1.event")
           \/ ENABLED DropRemove(t)
           \/ ENABLED DropCallback(t)
           \/ ENABLED DropUnlock(t)
    \/ \E g \in BagToSet(guards) : ENABLED GuardDrop(g)

\* thread t is inside a call and its next step waits for a lock
Waits(t) ==
    /\ InCall(t)
    /\ ~ENABLED TracedRegisterDispatch(t, "t1.event")
    /\ ~ENABLED DropRemove(t)
    /\ ~ENABLED DropCallback(t)
    /\ ~ENABLED DropUnlock(t)

\* the lock a thread waits for inside a call is that of the Event, which
\* it does not hold: it holds the write lock of the registry, in the
\* removal callback of a value, or no lock, in register after the insert
RegistryLockFirst ==
    \A t \in Threads :
        Waits(t) =>
            /\ ~CanRead("t1.event")
            /\ threads[t].reg = "t1"
            /\ \/ threads[t].op = "traced.register"
               \/ /\ threads[t].op = "drop"
                  /\ threads[t].pc = "removed"
                  /\ rwlock["t1"].writer

RegisterNotifying(t) ==
    /\ threads[t].op = "traced.register"
    /\ threads[t].pc = "registered"

\* thread t is in Inner::remove of the wrapped registry between
\* map.remove and the return of the callback: the UnRegister notification
\* is delivered from here
UnRegisterNotifying(t) ==
    /\ threads[t].op = "drop"
    /\ threads[t].reg = "t1"
    /\ threads[t].pc = "removed"

\* another thread or a guard holds the lock of the wrapped registry
HeldElsewhere(t) ==
    \/ \E u \in Threads \ {t} :
           threads[u].op = "drop" /\ threads[u].reg = "t1"
    \/ \E g \in BagToSet(guards) : g.reg = "t1"

\* Registry::read of the wrapped registry returns a view at once
ReadSucceeds == CanRead("t1") /\ ~rwlock["t1"].poisoned

\* the slot register inserted is in the wrapped registry
NewSlotPresent(t) ==
    /\ threads[t].id \in DOMAIN inner["t1"].map
    /\ inner["t1"].map[threads[t].id] = threads[t].value

\* C36: a TracedRegistry publishes UnRegister while the dropping thread
\* holds the write lock of the wrapped registry, and Register after
\* register has released it: an observer that takes the registry's read
\* view during a Register notification succeeds (no one else holding the
\* lock) and finds the new slot, and one that tries during an UnRegister
\* notification cannot acquire it.
C36_Original ==
    \A t \in Threads :
        /\ RegisterNotifying(t) =>
              /\ NewSlotPresent(t)
              /\ ~HeldElsewhere(t) => ReadSucceeds
        /\ UnRegisterNotifying(t) =>
              /\ rwlock["t1"].writer
              /\ ~CanRead("t1")

\* ---- C37
\* the on_enter and on_leave calls among calls, in order
EnterLeaveCalls(calls) ==
    SelectSeq(calls, LAMBDA c : c.call \in {"OnEnter", "OnLeave"})

\* the state entered and not yet left after the calls, starting from the
\* state entered (NoState when there is none); "Bad" when a call enters a
\* state while one is entered, or leaves one that is not the one entered
RECURSIVE EnteredAfter(_, _)
EnteredAfter(entered, calls) ==
    IF calls = <<>> \/ entered = "Bad" THEN entered
    ELSE LET c == Head(calls)
         IN IF entered = NoState
            THEN EnteredAfter(IF c.call = "OnEnter" THEN c.state ELSE "Bad",
                              Tail(calls))
            ELSE EnteredAfter(IF c.call = "OnLeave" /\ c.state = entered
                              THEN NoState ELSE "Bad",
                              Tail(calls))

\* the state a StateMachine has entered and not left: its state while it
\* lives
EnteredState(m) == IF m.live THEN m.state ELSE NoState

\* the step is a call of the StateMachine, whose hooks' calls the MOCK holds
\* after the step
MachineCall ==
    /\ ~ \E context \in MockContexts : ContextMut(context)
    /\ ~ \E state \in MockStates : MockBTransition(state)

\* C37: over the lifetime of a StateMachine driven through new_context,
\* update, run, transition and drop, on_enter and on_leave alternate, from
\* the on_enter of the initial state at construction to the on_leave of the
\* current state at drop: the state left is the one entered last, and the
\* state entered last and not left is the current state.
C37_EnterLeaveAlternate ==
    [][MachineCall =>
          /\ EnteredAfter(EnteredState(sm), EnterLeaveCalls(mock'.calls))
                = EnteredState(sm')
          /\ ~sm.live =>
                EnterLeaveCalls(mock'.calls)
                  = <<MockCall(sm'.state, "OnEnter", NoArgs, sm'.context)>>
          /\ ~sm'.live =>
                EnterLeaveCalls(mock'.calls)
                  = <<MockCall(sm.state, "OnLeave", NoArgs, sm.context)>>]_vars

\* a StateMachine has been dropped: the one call of the drop is the
\* on_leave of the state it was in
C37_Witness ==
    /\ ~sm.live
    /\ sm.state # NoMachine.state
    /\ mock.calls = <<MockCall(sm.state, "OnLeave", NoArgs, sm.context)>>

\* ---- C38
\* what on_update of the current state returns when called now
UpdateWouldReturn == on_update_returns(World(sm, mock))

\* the step is a pass of the loop of thread t's run_args
PassOf(t) ==
    /\ Running(t)
    /\ ~ \E state \in MockStates : MockBTransition(state)

\* the calls of a pass that makes a transition from state to new_state
PassWithTransition(state, new_state, a, context) ==
    <<MockCall(state, "OnUpdate", SomeArgs(a), context),
      MockCall(state, "OnLeave", NoArgs, context),
      TransitionCall(state, new_state, context),
      MockCall(new_state, "OnEnter", NoArgs, context)>>

\* C38: run_args returns exactly when on_update of the current state
\* returns no state; it makes one transition for every state returned; on
\* return the current state is the one whose on_update returned none; and
\* it goes on running only as long as on_update returns states.
C38_RunReturnsAtNone ==
    /\ [][\A t \in Threads :
            PassOf(t) =>
              /\ ~Running(t)' <=> UpdateWouldReturn = NoState
              /\ ~Running(t)' =>
                    /\ sm' = sm
                    /\ mock'.calls =
                          <<MockCall(sm.state, "OnUpdate",
                                     SomeArgs(threads[t].value), sm.context)>>
              /\ Running(t)' =>
                    /\ sm'.state = UpdateWouldReturn
                    /\ mock'.calls =
                          PassWithTransition(sm.state, UpdateWouldReturn,
                                             threads[t].value, sm.context)]_vars
    /\ \A t \in Threads :
          Running(t) ~> (~Running(t) \/ UpdateWouldReturn # NoState)

\* a run_args has returned from a state other than B: its last pass called
\* on_update with the caller's args, which returned none
C38_Witness ==
    /\ NotRunning
    /\ outcome.op = "run_args"
    /\ sm.live
    /\ sm.state # "B"
    /\ mock.calls = <<MockCall(sm.state, "OnUpdate", SomeArgs(1), sm.context)>>
    /\ mock.b_transition = NoState

\* ---- C39
\* the args the calls of the hooks named in hooks were given
ArgsGiven(calls, hooks) ==
    {calls[i].args : i \in {j \in DOMAIN calls : calls[j].call \in hooks}}

\* C39: the transitions made inside run_args(args) give no args to on_leave
\* and on_enter, and only on_update gets the caller's args; the transitions
\* made inside update_args(args) give the args to both hooks.
C39_RunDropsArgs ==
    [][\A a \in MockArgs :
          /\ RunArgs(a) =>
                /\ ArgsGiven(mock'.calls, {"OnLeave", "OnEnter"})
                      \subseteq {NoArgs}
                /\ ArgsGiven(mock'.calls, {"OnUpdate"}) = {SomeArgs(a)}
          /\ UpdateArgs(a) =>
                ArgsGiven(mock'.calls, {"OnUpdate", "OnLeave", "OnEnter"})
                  = {SomeArgs(a)}]_vars

\* a run_args(&mut 1) has made a transition from B: on_leave and on_enter
\* were given no args, the on_update before and the one after were given 1
C39_Witness ==
    /\ Len(mock.calls) = 5
    /\ mock.calls[1] = MockCall("B", "OnUpdate", SomeArgs(1), sm.context)
    /\ mock.calls[2] = MockCall("B", "OnLeave", NoArgs, sm.context)
    /\ mock.calls[4] = MockCall(sm.state, "OnEnter", NoArgs, sm.context)
    /\ mock.calls[5] = MockCall(sm.state, "OnUpdate", SomeArgs(1), sm.context)

====
